---- MODULE Spec2Model ----
(***************************************************************************)
(* A model of the yamcs/quickstart spacecraft simulator:                   *)
(*   - SIM/apps/spacecraft: the CDH telemetry framer, the COMMS telecommand *)
(*     listener, and the subsystem command handlers (OBC, POWER, ADCS,     *)
(*     COMMS, PAYLOAD, DATASTORE) with the ADCS attitude update;           *)
(*   - SIM/simulator_runtime.py: the CCSDSPacket codec.                     *)
(* Bytes are integers 0..255 and byte strings are sequences of them.  A    *)
(* Python float is identified by the bit pattern of its float32 encoding.  *)
(***************************************************************************)
EXTENDS Integers, Sequences, FiniteSets, TLC

----------------------------------------------------------------------------
(* Bounds of the model                                                     *)

\* operations (handler calls, datagrams, starts and stops) in one behaviour of Spec
MaxCalls == 2
\* ADCS commands and ADCS updates in one behaviour of SpecADCS and SpecTM
MaxCmds == 2
MaxTicks == 2
\* telemetry packets in one behaviour of SpecTM
MaxTm == 1
\* ADCS commands and ADCS updates in one behaviour of SpecAtt
MaxAttCmds == 2
MaxAttTicks == 2
\* ticks in one behaviour of SpecSlew: a slew of 90 degrees at 2 degrees
\* per tick comes within 4 degrees on tick 43
MaxSlewTicks == 45
\* datagrams that arrive on the TC socket in one behaviour of SpecRT
MaxDatagrams == 3
MaxSimCalls == 4
MaxOrbitCalls == 6
MaxStreamPackets == 2
MaxLiveTicks == 50
\* telemetry packets built in one behaviour of SpecCDH: beyond one wrap
MaxPackets == 16390
MaxTmPackets == 3
MaxPasses == 2
MaxTcDatagrams == 2
MaxReports == 1

----------------------------------------------------------------------------
(* Integer and byte helpers: Python's >>, <<, &, | on non-negative ints    *)

RECURSIVE Pow2(_)
Pow2(n) == IF n = 0 THEN 1 ELSE 2 * Pow2(n - 1)

Shl(x, n) == x * Pow2(n)
Shr(x, n) == x \div Pow2(n)

RECURSIVE BitAnd(_, _)
BitAnd(a, b) ==
    IF a = 0 \/ b = 0 THEN 0
    ELSE (IF a % 2 = 1 /\ b % 2 = 1 THEN 1 ELSE 0) + 2 * BitAnd(a \div 2, b \div 2)

RECURSIVE BitOr(_, _)
BitOr(a, b) ==
    IF a = 0 THEN b
    ELSE IF b = 0 THEN a
    ELSE (IF a % 2 = 1 \/ b % 2 = 1 THEN 1 ELSE 0) + 2 * BitOr(a \div 2, b \div 2)

\* int.to_bytes(2, 'big') / struct.pack(">H", x)
U16BE(x) == << (x \div 256) % 256, x % 256 >>
\* struct.pack(">I", x)
U32BE(x) == << (x \div 16777216) % 256, (x \div 65536) % 256, (x \div 256) % 256, x % 256 >>
\* int.from_bytes(b, 'big')
RECURSIVE FromBE(_)
FromBE(b) == IF Len(b) = 0 THEN 0 ELSE 256 * FromBE(SubSeq(b, 1, Len(b) - 1)) + b[Len(b)]

\* Python slice data[i:j] with 0-based i, j (never raises)
Slice(d, i, j) == SubSeq(d, i + 1, IF j < Len(d) THEN j ELSE Len(d))
\* Python slice data[i:]
SliceFrom(d, i) == SubSeq(d, i + 1, Len(d))

----------------------------------------------------------------------------
(* Values                                                                  *)

NoneVal == [none |-> TRUE]
IntV(n) == [int |-> n]
\* a Python float, by the bits of its float32 encoding
FloatV(bits) == [f32 |-> bits]

\* struct.unpack: raises struct.error unless the buffer has exactly the size
\* of the format
StructError == [ok |-> FALSE]
unpack_B(d) == IF Len(d) = 1 THEN [ok |-> TRUE, v |-> d[1]] ELSE StructError
unpack_H(d) == IF Len(d) = 2 THEN [ok |-> TRUE, v |-> FromBE(d)] ELSE StructError
unpack_I(d) == IF Len(d) = 4 THEN [ok |-> TRUE, v |-> FromBE(d)] ELSE StructError
unpack_f(d) == IF Len(d) = 4 THEN [ok |-> TRUE, v |-> FloatV(FromBE(d))] ELSE StructError
unpack_ffff(d) ==
    IF Len(d) = 16
    THEN [ok |-> TRUE,
          v |-> [i \in 1..4 |-> FloatV(FromBE(SubSeq(d, 4 * i - 3, 4 * i)))]]
    ELSE StructError

----------------------------------------------------------------------------
(* State                                                                   *)

VARIABLES
    obc,          \* OBCModule fields
    power,        \* PowerModule fields
    adcs,         \* ADCSModule fields
    comms,        \* CommsModule fields
    payload,      \* PayloadModule fields
    datastore,    \* DatastoreModule fields
    cdh,          \* CDHModule fields
    tc_thread,    \* the COMMS telecommand listener thread
    net_out,      \* number of datagrams the program has sent on any socket
    tm_packet,    \* the bytes returned by the last create_tm_packet
    packets_built,\* history: packets built by create_tm_packet since construction
    call,         \* history: the last operation and its arguments
    pkt,          \* a CCSDSPacket object under construction
    wire,         \* what pkt.to_bytes() returned, << >> before the call
    decoded,      \* what CCSDSPacket.from_bytes(wire) returned, None before
    n_cmds,       \* history: calls of ADCSModule.process_command so far
    n_ticks,      \* history: calls of ADCSModule.update so far
    drawn,        \* history: what the last ADCSModule.update drew from outside
    handled,      \* history: the last subsystem process_command invocation
    rt,           \* simulator_runtime: the telecommand path of its Simulator
    sim,          \* Simulator fields and the position of its main loop
    orbit,        \* OrbitPropagator fields and what propagate returned last
    playback,     \* the playback sender: its test data file and what it sent
    scrt,           \* simulator_runtime: telemetry path, payload and datastore
    obcsys,       \* simulator_runtime: an OBCSubsystem and the subsystems around it
    pbsim,        \* the playback Simulator object, its two threads and the status loop
    last_logs     \* the log records written by the last operation

vars == << obc, power, adcs, comms, payload, datastore, cdh, tc_thread, net_out,
           tm_packet, packets_built, pkt, wire, decoded, call, n_cmds, n_ticks, drawn,
           handled, rt, sim, orbit, playback, scrt, obcsys, pbsim, last_logs >>


----------------------------------------------------------------------------
(* Construction: SPACECRAFT_CONFIG['spacecraft']['initial_state']          *)

OBC_init ==
    [state |-> 2, temperature |-> 20, heater_setpoint |-> IntV(25),
     power_draw |-> FloatV(1075838976), mode |-> 1, heater_state |-> NoneVal]

POWER_init ==
    [state |-> 2, temperature |-> 20, heater_setpoint |-> IntV(25),
     power_draw |-> FloatV(1065353216), heater_state |-> NoneVal]

COMMS_init ==
    [state |-> 2, temperature |-> 20, heater_setpoint |-> IntV(25),
     power_draw |-> FloatV(1077936128), mode |-> 0, heater_state |-> NoneVal,
     packets_sent |-> 0, packets_received |-> 0,
     uplink_bitrate |-> 9600, downlink_bitrate |-> 9600, running |-> FALSE]

PAYLOAD_init ==
    [state |-> 0, temperature |-> 20, heater_setpoint |-> IntV(25),
     power_draw |-> FloatV(1073741824), status |-> 0, heater_state |-> NoneVal]

DATASTORE_init ==
    [state |-> 2, temperature |-> 20, heater_setpoint |-> IntV(25),
     power_draw |-> FloatV(1069547520), heater_state |-> NoneVal,
     mode |-> 0, transfer_progress |-> 0, files |-> NoneVal]

CDH_init == [sequence_count |-> 0, adcs_temperature |-> -10]

----------------------------------------------------------------------------
(* Subsystem command handlers.  Each returns the module's fields after the *)
(* call and the log records written; struct.error is caught in the handler *)

Log(level, what) == << level, what >>
\* a handler that returned normally / that let an exception escape
Returned(m, logs) == [st |-> m, logs |-> logs, raised |-> "none"]
Raised(m, logs, exc) == [st |-> m, logs |-> logs, raised |-> exc]

\* the three commands every handler starts with: SET_STATE, SET_HEATER,
\* SET_HEATER_SETPOINT at base, base+1, base+2
CommonCommand(m, base, command_id, command_data) ==
    IF command_id = base THEN
        LET u == unpack_B(command_data) IN
        IF u.ok THEN Returned([m EXCEPT !.state = u.v], << Log("info", "set state") >>)
        ELSE Returned(m, << Log("error", "unpack") >>)
    ELSE IF command_id = base + 1 THEN
        LET u == unpack_B(command_data) IN
        IF u.ok THEN Returned([m EXCEPT !.heater_state = IntV(u.v)], << Log("info", "set heater") >>)
        ELSE Returned(m, << Log("error", "unpack") >>)
    ELSE
        LET u == unpack_f(command_data) IN
        IF u.ok THEN Returned([m EXCEPT !.heater_setpoint = u.v], << Log("info", "set heater setpoint") >>)
        ELSE Returned(m, << Log("error", "unpack") >>)

OBC_process_command(m, command_id, command_data) ==
    IF command_id \in 10..12 THEN CommonCommand(m, 10, command_id, command_data)
    ELSE IF command_id = 13 THEN
        LET u == unpack_B(command_data) IN
        IF u.ok THEN Returned([m EXCEPT !.mode = u.v], << Log("info", "set mode") >>)
        ELSE Returned(m, << Log("error", "unpack") >>)
    ELSE IF command_id = 14 THEN
        Returned([m EXCEPT !.state = 0, !.mode = 0, !.heater_state = IntV(0),
                          !.heater_setpoint = FloatV(0)], << Log("info", "reset") >>)
    ELSE Returned(m, << Log("warning", "unknown command") >>)

POWER_process_command(m, command_id, command_data) ==
    IF command_id \in 20..22 THEN CommonCommand(m, 20, command_id, command_data)
    ELSE Returned(m, << Log("warning", "unknown command") >>)

COMMS_process_command(m, command_id, command_data) ==
    IF command_id \in 40..42 THEN CommonCommand(m, 40, command_id, command_data)
    ELSE IF command_id = 43 THEN
        LET u == unpack_B(command_data) IN
        IF u.ok THEN Returned([m EXCEPT !.mode = u.v], << Log("info", "set mode") >>)
        ELSE Returned(m, << Log("error", "unpack") >>)
    ELSE IF command_id = 44 THEN
        LET u == unpack_I(command_data) IN
        IF u.ok THEN Returned([m EXCEPT !.downlink_bitrate = u.v], << Log("info", "set bitrate") >>)
        ELSE Returned(m, << Log("error", "unpack") >>)
    ELSE Returned(m, << Log("warning", "unknown command") >>)

\* PayloadModule.process_command.  _capture_image blocks until the capture is
\* over and leaves status 0 whether the image was saved or the request failed
PAYLOAD_process_command(m, command_id, command_data) ==
    IF command_id \in 50..52 THEN CommonCommand(m, 50, command_id, command_data)
    ELSE IF command_id = 53 THEN
        LET u == unpack_I(command_data) IN
        IF ~u.ok THEN Returned(m, << Log("error", "unpack") >>)
        ELSE IF m.state = 2
             THEN Returned([m EXCEPT !.status = 0], << Log("info", "image capture") >>)
             ELSE Returned(m, << Log("info", "image capture") >>)
    ELSE Returned(m, << Log("warning", "unknown command") >>)

\* DatastoreModule.process_command.  listing is os.listdir(storage_path) as
\* the call finds it, found whether the named file is in it, copy_ok whether
\* shutil.copy succeeds
DATASTORE_process_command(m, command_id, command_data, listing, found, copy_ok) ==
    IF command_id \in 60..62 THEN CommonCommand(m, 60, command_id, command_data)
    ELSE IF command_id = 63 THEN
        IF m.files = NoneVal
        THEN Raised(m, << Log("info", "clear") >>, "AttributeError")
        ELSE Returned(m, << Log("info", "clear") >>)
    ELSE IF command_id = 64 THEN
        LET listed == [m EXCEPT !.files = [names |-> listing]] IN
        IF ~found THEN Returned(listed, << Log("warning", "file not found") >>)
        ELSE IF copy_ok
             THEN Returned([listed EXCEPT !.mode = 0, !.transfer_progress = 0],
                           << Log("info", "transfer") >>)
             ELSE Returned([listed EXCEPT !.mode = 1, !.transfer_progress = 0],
                           << Log("error", "transfer") >>)
    ELSE Returned(m, << Log("warning", "unknown command") >>)

----------------------------------------------------------------------------
(* ADCS.  Angles are in millidegrees, rates in millidegrees per second.    *)
(* A quaternion is one of                                                  *)
(*   [raw |-> <<x, y, z, w>>]  components in thousandths (the configured   *)
(*                             initial attitude),                          *)
(*   [f32s |-> <<..4 floats>>] the list stored by SET_QUATERNION,          *)
(*   [rpy |-> <<r, p, y>>]     the unit quaternion _euler_to_quaternion    *)
(*                             returns for ZYX Euler angles r, p, y,       *)
(*   [nan |-> TRUE]            four NaN components.                        *)
(* Euler angles are a triple of millidegrees, or three times NaN.          *)

pointing_accuracy == 2000
nominal_slew_rate == 2000
time_step == 1
mission_start_time == 0

HalfTurn == 180000
\* an angle brought into [-180, 180) degrees
Wrap180(a) == ((a + HalfTurn) % (2 * HalfTurn)) - HalfTurn

\* the Euler angles arctan2/arcsin give back for the rotation built from
\* roll r, pitch p, yaw y: pitch in [-90, 90], roll and yaw in one turn
CanonRpy(rpy) ==
    LET r == Wrap180(rpy[1])
        p == Wrap180(rpy[2])
        y == Wrap180(rpy[3])
    IN  IF 2 * p > HalfTurn THEN << Wrap180(r + HalfTurn), HalfTurn - p, Wrap180(y + HalfTurn) >>
        ELSE IF 2 * p < -HalfTurn THEN << Wrap180(r + HalfTurn), -HalfTurn - p, Wrap180(y + HalfTurn) >>
        ELSE << r, p, y >>

euler_to_quaternion(roll_deg, pitch_deg, yaw_deg) ==
    [rpy |-> CanonRpy(<< roll_deg, pitch_deg, yaw_deg >>)]

NaNQuaternion == [nan |-> TRUE]
\* an angle that is NaN: a number no angle of the model takes
NaN == 999999999
NaNAngles == << NaN, NaN, NaN >>

\* a finite float32 in thousandths, rounded towards zero (13 low bits of
\* the mantissa are dropped first; values below 2^-10 give 0)
f32_thousandths(bits) ==
    LET negative == (bits \div Pow2(30)) >= 2
        e == (bits \div Pow2(23)) % 256
        mant == (Pow2(23) + (bits % Pow2(23))) \div Pow2(13)
        mag == IF e < 117 THEN 0
               ELSE IF e <= 137 THEN (mant * 1000) \div Pow2(137 - e)
               ELSE mant * 1000 * Pow2(e - 137)
    IN  IF negative THEN -mag ELSE mag

\* the components of a stored quaternion, in thousandths
components(q) ==
    IF "raw" \in DOMAIN q THEN q.raw
    ELSE [i \in 1..4 |-> f32_thousandths(q.f32s[i].f32)]

\* _quaternion_to_euler.  It divides its argument by its norm first: a zero
\* quaternion becomes NaN (numpy divides 0.0 by 0.0 without raising) and
\* NaN goes through arctan2 and arcsin.  Of the stored quaternions, w alone
\* is no rotation, x alone is a roll of a half turn, and x = w > 0 (the
\* configured [0.707, 0, 0, 0.707]) is a roll of 90 degrees
quaternion_to_euler(q) ==
    IF "rpy" \in DOMAIN q THEN q.rpy
    ELSE IF "nan" \in DOMAIN q THEN NaNAngles
    ELSE LET c == components(q) IN
         IF c = << 0, 0, 0, 0 >> THEN NaNAngles
         ELSE IF c[2] = 0 /\ c[3] = 0 /\ c[1] = c[4] /\ c[1] > 0 THEN << 90000, 0, 0 >>
         ELSE IF c[2] = 0 /\ c[3] = 0 /\ c[4] = 0 THEN << HalfTurn, 0, 0 >>
         ELSE << 0, 0, 0 >>

Sign(x) == IF x > 0 THEN 1 ELSE IF x < 0 THEN -1 ELSE 0
Abs(x) == IF x < 0 THEN -x ELSE x

ADCS_init ==
    [state |-> 2, temperature |-> 20, heater_setpoint |-> IntV(25),
     power_draw |-> FloatV(1084227584), mode |-> 0, status |-> 0,
     quaternion |-> [raw |-> << 707, 0, 0, 707 >>],
     angular_velocity |-> << 0, 0, 0 >>,
     position |-> [config |-> << 0, 0, 400 >>], eclipse |-> 0,
     last_update_time |-> mission_start_time,
     pointing_start_time |-> NoneVal,
     lock_quaternion |-> NoneVal, heater_state |-> NoneVal]

\* the ADCS modes SET_MODE accepts: 0 OFF, 1 LOCK, 2 SUNPOINTING, 3 NADIR, 4 DOWNLOAD
MaxMode == 4

\* a validation that lets mode 5 through
ADCS_set_mode_upto5(m, new_mode) ==
    IF new_mode > MaxMode + 1
    THEN Returned(m, << Log("info", "mode request"), Log("error", "invalid mode") >>)
    ELSE Returned([m EXCEPT !.mode = new_mode, !.status = 1, !.pointing_start_time = NoneVal],
                  << Log("info", "mode request"), Log("info", "begin slew") >>)

\* command 33 once its byte is unpacked
ADCS_set_mode(m, new_mode) ==
    IF new_mode > MaxMode
    THEN Returned(m, << Log("info", "mode request"), Log("error", "invalid mode") >>)
    ELSE Returned([m EXCEPT !.mode = new_mode, !.status = 1, !.pointing_start_time = NoneVal],
                  << Log("info", "mode request"), Log("info", "begin slew") >>)

\* a SET_QUATERNION that stores the rotation of its argument, normalised
ADCS_set_quaternion_normalised(m, q) ==
    Returned([m EXCEPT !.quaternion = [rpy |-> quaternion_to_euler([f32s |-> q])]],
             << Log("info", "set quaternion") >>)

\* command 34 once its four floats are unpacked: self.quaternion = list(q)
ADCS_set_quaternion(m, q) ==
    Returned([m EXCEPT !.quaternion = [f32s |-> q]], << Log("info", "set quaternion") >>)

ADCS_process_command(m, command_id, command_data) ==
    IF command_id \in 30..32 THEN CommonCommand(m, 30, command_id, command_data)
    ELSE IF command_id = 33 THEN
        LET u == unpack_B(command_data) IN
        IF u.ok THEN ADCS_set_mode(m, u.v)
        ELSE Returned(m, << Log("error", "unpack") >>)
    ELSE IF command_id = 34 THEN
        LET u == unpack_ffff(command_data) IN
        IF u.ok THEN ADCS_set_quaternion(m, u.v)
        ELSE Returned(m, << Log("error", "unpack") >>)
    ELSE Returned(m, << Log("warning", "unknown command") >>)

\* an uncontrolled motion that also reports the status UNCONTROLLED
uncontrolled_motion_status_cleared(m, rates) ==
    LET rpy == quaternion_to_euler(m.quaternion) IN
    [m EXCEPT !.angular_velocity = rates,
              !.status = 0,
              !.quaternion = IF rpy = NaNAngles THEN NaNQuaternion
                             ELSE euler_to_quaternion(rpy[1] + rates[1] * time_step,
                                                      rpy[2] + rates[2] * time_step,
                                                      rpy[3] + rates[3] * time_step)]

\* _uncontrolled_motion: every axis advances by its own random rate
uncontrolled_motion(m, rates) ==
    LET rpy == quaternion_to_euler(m.quaternion) IN
    [m EXCEPT !.angular_velocity = rates,
              !.quaternion = IF rpy = NaNAngles THEN NaNQuaternion
                             ELSE euler_to_quaternion(rpy[1] + rates[1] * time_step,
                                                      rpy[2] + rates[2] * time_step,
                                                      rpy[3] + rates[3] * time_step)]

\* _keep_pointing: the desired attitude plus a random error per axis
keep_pointing(m, q_desired, rand_error) ==
    LET d == quaternion_to_euler(q_desired) IN
    [q_current |-> IF d = NaNAngles THEN NaNQuaternion
                   ELSE euler_to_quaternion(d[1] + rand_error[1], d[2] + rand_error[2],
                                            d[3] + rand_error[3]),
     ang_vel |-> rand_error]

\* _keep_slewing: every axis steps towards the desired angle at the nominal
\* rate plus noise; the errors returned are those before the step.  With a
\* NaN attitude the errors and the new attitude are NaN
keep_slewing(m, q_desired, q_current, rate_noise) ==
    LET d == quaternion_to_euler(q_desired)
        c == quaternion_to_euler(q_current)
        applied == [i \in 1..3 |-> rate_noise[i] + nominal_slew_rate]
    IN  IF c = NaNAngles \/ d = NaNAngles
        THEN [q_current |-> NaNQuaternion, ang_vel |-> applied, errors |-> NaNAngles]
        ELSE LET errors == [i \in 1..3 |-> d[i] - c[i]] IN
             [q_current |-> euler_to_quaternion(c[1] + Sign(errors[1]) * applied[1] * time_step,
                                                c[2] + Sign(errors[2]) * applied[2] * time_step,
                                                c[3] + Sign(errors[3]) * applied[3] * time_step),
              ang_vel |-> applied, errors |-> errors]

\* a test that also counts an error of exactly twice the accuracy
exceeds_or_equals(error) == error # NaN /\ Abs(error) >= pointing_accuracy * 2

\* np.abs(error) > 2 * pointing_accuracy; a comparison with NaN is False
exceeds(error) == error # NaN /\ Abs(error) > pointing_accuracy * 2

\* the SUNPOINTING, NADIR and DOWNLOAD branches of _update_attitude
track(m, q_desired, rate_noise, rest_noise) ==
    LET k == keep_slewing(m, q_desired, m.quaternion, rate_noise) IN
    IF \E i \in 1..3 : exceeds(k.errors[i])
    THEN [m EXCEPT !.quaternion = k.q_current, !.angular_velocity = k.ang_vel, !.status = 1]
    ELSE [m EXCEPT !.quaternion = k.q_current, !.angular_velocity = rest_noise, !.status = 2]

\* _update_attitude.  e carries what the tick draws from outside the module:
\* the desired attitude computed from the orbit state (target), the random
\* numbers, and whether a computation raises (fail)
update_attitude(m, e) ==
    IF e.fail = "attitude" THEN [m EXCEPT !.status = 0]
    ELSE IF m.mode = 0 THEN uncontrolled_motion(m, e.rates)
    ELSE IF m.status = 2 \/ m.mode = 1 THEN
        LET locked == IF m.lock_quaternion = NoneVal
                      THEN [m EXCEPT !.lock_quaternion = m.quaternion] ELSE m
            \* q_desired is None when the branch is entered, so the first test
            \* always takes the current attitude as the desired one
            q_desired == locked.quaternion
            k == keep_pointing(locked, q_desired, e.rand_error)
        IN  [locked EXCEPT !.quaternion = k.q_current, !.angular_velocity = k.ang_vel]
    ELSE IF m.mode \in 2..4 THEN track(m, [rpy |-> e.target], e.rate_noise, e.rest_noise)
    ELSE m

\* orbit_state['eclipse'] as 0 or 1.  With the configured orbit and epoch the
\* spacecraft is sunlit throughout the first seconds of the mission, which
\* are the times the behaviours here reach
eclipse_at(current_time) == 0

\* an update that runs the tick whatever the time it is called with
ADCS_update_every_call(m, current_time, e) ==
    IF e.fail = "orbit" THEN [m EXCEPT !.status = 0]
    ELSE LET moved == [m EXCEPT !.position = [orbit |-> current_time],
                                !.eclipse = eclipse_at(current_time)]
         IN  IF e.fail = "environment" THEN [moved EXCEPT !.status = 0]
             ELSE [update_attitude(moved, e) EXCEPT !.last_update_time = current_time]

\* an update whose handler of an environment failure leaves the status
ADCS_update_status_kept(m, current_time, e) ==
    IF current_time = m.last_update_time THEN m
    ELSE IF e.fail = "orbit" THEN [m EXCEPT !.status = 0]
    ELSE LET moved == [m EXCEPT !.position = [orbit |-> current_time],
                                !.eclipse = eclipse_at(current_time)]
         IN  IF e.fail = "environment" THEN moved
             ELSE [update_attitude(moved, e) EXCEPT !.last_update_time = current_time]

\* ADCSModule.update.  A failure of the propagator leaves everything but the
\* status; one of the environment model comes after position and eclipse
\* are stored; neither reaches the assignment of last_update_time
ADCS_update(m, current_time, e) ==
    IF current_time = m.last_update_time THEN m
    ELSE IF e.fail = "orbit" THEN [m EXCEPT !.status = 0]
    ELSE LET moved == [m EXCEPT !.position = [orbit |-> current_time],
                                !.eclipse = eclipse_at(current_time)]
         IN  IF e.fail = "environment" THEN [moved EXCEPT !.status = 0]
             ELSE [update_attitude(moved, e) EXCEPT !.last_update_time = current_time]

----------------------------------------------------------------------------
(* CDH: the telemetry packet                                               *)

version == 0
packet_type == 0
sec_hdr_flag == 0
apid == 100
sequence_flags == 3
SeqCountMask == 16383

\* the format characters and the values create_tm_packet packs, in order
TmFields == <<
    << "B", 2 >>,  \* OBC_state
    << "B", 20 >>,  \* OBC_temperature
    << "B", 25 >>,  \* OBC_heater_setpoint
    << "f", 1075838976 >>,  \* OBC_power_draw = 2.5
    << "B", 1 >>,  \* OBC_mode
    << "B", 2 >>,  \* CDH_state
    << "B", 22 >>,  \* CDH_temperature
    << "B", 25 >>,  \* CDH_heater_setpoint
    << "f", 1073741824 >>,  \* CDH_power_draw = 2.0
    << "B", 2 >>,  \* POWER_state
    << "B", 23 >>,  \* POWER_temperature
    << "B", 25 >>,  \* POWER_heater_setpoint
    << "B", 10 >>,  \* POWER_power_draw
    << "f", 1089260749 >>,  \* POWER_battery_voltage = 7.4
    << "f", 1067030938 >>,  \* POWER_battery_current = 1.2
    << "f", 1118437376 >>,  \* POWER_battery_charge = 85.0
    << "f", 0 >>,  \* POWER_total_power_balance = 0.0
    << "f", 1120403456 >>,  \* POWER_solar_total_generation = 100.0
    << "f", 1103626240 >>,  \* POWER_solar_panel_generation_pX = 25.0
    << "f", 1103626240 >>,  \* POWER_solar_panel_generation_nX = 25.0
    << "f", 1103626240 >>,  \* POWER_solar_panel_generation_pY = 25.0
    << "f", 1103626240 >>,  \* POWER_solar_panel_generation_nY = 25.0
    << "B", 2 >>,  \* ADCS_state
    << "b", 22 >>,  \* ADCS_temperature
    << "B", 25 >>,  \* ADCS_heater_setpoint
    << "f", 1084227584 >>,  \* ADCS_power_draw = 5.0
    << "B", 2 >>,  \* ADCS_mode
    << "B", 2 >>,  \* ADCS_status
    << "f", 1060437492 >>,  \* ADCS_quaternion_q1 = 0.707
    << "f", 0 >>,  \* ADCS_quaternion_q2 = 0.0
    << "f", 0 >>,  \* ADCS_quaternion_q3 = 0.0
    << "f", 1060437492 >>,  \* ADCS_quaternion_q4 = 0.707
    << "f", 1036831949 >>,  \* ADCS_angular_velocity_x = 0.1
    << "f", 1036831949 >>,  \* ADCS_angular_velocity_y = 0.1
    << "f", 1036831949 >>,  \* ADCS_angular_velocity_z = 0.1
    << "f", 0 >>,  \* ADCS_earth_latitude = 0.0
    << "f", 0 >>,  \* ADCS_earth_longitude = 0.0
    << "f", 1137180672 >>,  \* ADCS_earth_altitude = 400.0
    << "B", 0 >>,  \* ADCS_eclipse
    << "B", 2 >>,  \* COMMS_state
    << "B", 22 >>,  \* COMMS_temperature
    << "B", 25 >>,  \* COMMS_heater_setpoint
    << "f", 1077936128 >>,  \* COMMS_power_draw = 3.0
    << "B", 2 >>,  \* COMMS_mode
    << "I", 1024 >>,  \* COMMS_tm_queue_size
    << "I", 512 >>,  \* COMMS_tc_queue_size
    << "I", 9600 >>,  \* COMMS_tm_bitrate
    << "I", 9600 >>,  \* COMMS_tc_bitrate
    << "B", 2 >>,  \* PAYLOAD_state
    << "B", 21 >>,  \* PAYLOAD_temperature
    << "B", 25 >>,  \* PAYLOAD_heater_setpoint
    << "f", 1073741824 >>,  \* PAYLOAD_power_draw = 2.0
    << "B", 0 >>,  \* PAYLOAD_status
    << "B", 2 >>,  \* DATASTORE_state
    << "B", 20 >>,  \* DATASTORE_temperature
    << "B", 25 >>,  \* DATASTORE_heater_setpoint
    << "f", 1069547520 >>,  \* DATASTORE_power_draw = 1.5
    << "f", 1148846080 >>,  \* DATASTORE_storage_remaining = 1000.0
    << "I", 10 >>    \* DATASTORE_number_of_files
>>

\* struct.pack of one value under ">": no padding, big-endian
pack_field(f) ==
    IF f[1] = "B" THEN << f[2] >>
    ELSE IF f[1] = "b" THEN << f[2] % 256 >>
    ELSE U32BE(f[2])

RECURSIVE pack_fields(_)
pack_fields(fs) == IF Len(fs) = 0 THEN << >> ELSE pack_field(Head(fs)) \o pack_fields(Tail(fs))

\* struct.calcsize of the first n fields
RECURSIVE calcsize(_, _)
calcsize(fs, n) == IF n = 0 THEN 0 ELSE Len(pack_field(fs[n])) + calcsize(fs, n - 1)

first_word == BitOr(BitOr(BitOr(Shl(version, 13), Shl(packet_type, 12)), Shl(sec_hdr_flag, 11)), apid)

\* a second word that carries the count of the packet after this one
second_word_of_next(sequence_count) ==
    BitOr(Shl(sequence_flags, 14), BitAnd(sequence_count + 1, SeqCountMask))
second_word(sequence_count) == BitOr(Shl(sequence_flags, 14), BitAnd(sequence_count, SeqCountMask))

\* a length field that counts every byte of the data section
packet_length_whole(data) == Len(data)
\* packet_length = len(data) - 1
packet_length(data) == Len(data) - 1

\* a stored counter that wraps with the 14-bit field
next_sequence_count_wrapping(sequence_count) == (sequence_count + 1) % (SeqCountMask + 1)
\* self.sequence_count += 1
next_sequence_count(sequence_count) == sequence_count + 1

\* CDHModule.create_tm_packet: the packet and the module afterwards
create_tm_packet(c) ==
    LET data == pack_fields(TmFields)
    IN  [packet |-> U16BE(first_word) \o U16BE(second_word(c.sequence_count))
                    \o U16BE(packet_length(data)) \o data,
         cdh |-> [c EXCEPT !.sequence_count = next_sequence_count(@)]]

\* CDHModule.process_command(self, command_data): one parameter besides self.
\* Python raises TypeError before the body runs when a call passes another
\* number of arguments; the body writes a log record and nothing else
CDH_process_command(c, nargs) ==
    IF nargs # 1 THEN Raised(c, << >>, "TypeError")
    ELSE Returned(c, << Log("info", "Processing TC") >>)

----------------------------------------------------------------------------
(* simulator_runtime.CCSDSPacket                                           *)

CCSDSPacket_init ==
    [version |-> 0, packet_type |-> 0, sec_header_flag |-> 0, apid |-> 0,
     sequence_flags |-> 3, sequence_count |-> 0, packet_length |-> 0, payload |-> << >>]

\* a first word with the secondary-header flag one bit lower, on top of
\* the APID
to_bytes_primary_flag10(p) ==
    BitOr(BitOr(BitOr(Shl(BitAnd(p.version, 7), 13),
                      Shl(BitAnd(p.packet_type, 1), 12)),
                Shl(BitAnd(p.sec_header_flag, 1), 10)),
          BitAnd(p.apid, 2047))

\* the first header word to_bytes builds
to_bytes_primary(p) ==
    BitOr(BitOr(BitOr(Shl(BitAnd(p.version, 7), 13),
                      Shl(BitAnd(p.packet_type, 1), 12)),
                Shl(BitAnd(p.sec_header_flag, 1), 11)),
          BitAnd(p.apid, 2047))

\* the second header word to_bytes builds
to_bytes_sequence(p) ==
    BitOr(Shl(BitAnd(p.sequence_flags, 3), 14), BitAnd(p.sequence_count, 16383))

\* CCSDSPacket.to_bytes.  The third word is len(self.payload);
\* self.packet_length is not read
to_bytes(p) ==
    U16BE(to_bytes_primary(p)) \o U16BE(to_bytes_sequence(p)) \o U16BE(Len(p.payload))
    \o p.payload

\* a decoder that keeps 10 bits of the APID
from_bytes_apid10(data) ==
    LET primary == FromBE(Slice(data, 0, 2))
        sequence == FromBE(Slice(data, 2, 4))
    IN  [version |-> BitAnd(Shr(primary, 13), 7),
         packet_type |-> BitAnd(Shr(primary, 12), 1),
         sec_header_flag |-> BitAnd(Shr(primary, 11), 1),
         apid |-> BitAnd(primary, 1023),
         sequence_flags |-> BitAnd(Shr(sequence, 14), 3),
         sequence_count |-> BitAnd(sequence, 16383),
         packet_length |-> FromBE(Slice(data, 4, 6)),
         payload |-> SliceFrom(data, 6)]

\* CCSDSPacket.from_bytes
from_bytes(data) ==
    LET primary == FromBE(Slice(data, 0, 2))
        sequence == FromBE(Slice(data, 2, 4))
    IN  [version |-> BitAnd(Shr(primary, 13), 7),
         packet_type |-> BitAnd(Shr(primary, 12), 1),
         sec_header_flag |-> BitAnd(Shr(primary, 11), 1),
         apid |-> BitAnd(primary, 2047),
         sequence_flags |-> BitAnd(Shr(sequence, 14), 3),
         sequence_count |-> BitAnd(sequence, 16383),
         packet_length |-> FromBE(Slice(data, 4, 6)),
         payload |-> SliceFrom(data, 6)]

----------------------------------------------------------------------------
(* simulator_runtime: the telecommand path of Simulator.update             *)
(* A datagram is its 6-byte CCSDS header and what json.loads makes of the  *)
(* bytes after it.  rt.socket is the receive buffer of the TC socket;      *)
(* rcv numbers the datagrams in the order recvfrom returned them.          *)
(* rt.off_warnings lists the datagrams dropped with the warning that the   *)
(* target subsystem is OFF, rt.unknown_warnings those dropped with the     *)
(* warning that the target is no registered subsystem.                     *)

\* the subsystems registered with the OBC, by name
RtSubsystems == { "POWER", "ADCS", "COMMS", "PAYLOAD", "DATASTORE" }
ADCSModes == { "OFF", "LOCK", "SUNPOINTING", "NADIR" }

\* the Simulator once constructed: states from initial_states, the ADCS put
\* into SUNPOINTING, COMMS still in mode OFF
RT_init ==
    [op |-> "init",
     state |-> [s \in RtSubsystems |->
                   IF s \in { "POWER", "COMMS" } THEN "ACTIVE" ELSE "IDLE"],
     obc_state |-> "ACTIVE",
     obc_mode |-> "SAFE",
     comms_mode |-> "OFF", adcs_mode |-> "SUNPOINTING", adcs_status |-> "SLEWING",
     socket |-> << >>, n_arrived |-> 0, n_received |-> 0,
     tc_queue |-> << >>, applied |-> << >>, off_warnings |-> << >>,
     unknown_warnings |-> << >>]

\* socket.recvfrom on a buffer that is not empty
recvfrom(s) ==
    [item |-> [rcv |-> s.n_received + 1, d |-> Head(s.socket)],
     st |-> [s EXCEPT !.socket = Tail(@), !.n_received = @ + 1]]

\* a queue that hands out its newest item
tc_queue_get_newest(q) == [item |-> q[Len(q)], rest |-> SubSeq(q, 1, Len(q) - 1)]
\* queue.Queue.get: the oldest item
tc_queue_get(q) == [item |-> Head(q), rest |-> Tail(q)]

\* CommunicationsSubsystem._check_incoming_tc: recvfrom until the buffer is
\* empty, every datagram put on tc_queue
RECURSIVE check_incoming_tc(_)
check_incoming_tc(s) ==
    IF s.socket = << >> THEN s
    ELSE LET r == recvfrom(s) IN
         check_incoming_tc([r.st EXCEPT !.tc_queue = Append(@, r.item)])

\* subsystem.process_command(command, parameters) for the commands sent here
rt_process_command(s, target, json) ==
    IF json.command = "SET_STATE" THEN [s EXCEPT !.state[target] = json.value]
    ELSE IF target = "ADCS" /\ json.command = "SET_MODE" THEN
        IF json.value \in ADCSModes /\ json.value # s.adcs_mode
        THEN [s EXCEPT !.adcs_mode = json.value, !.adcs_status = "SLEWING"]
        ELSE s
    ELSE IF target = "COMMS" /\ json.command = "CLEAR_TC_QUEUE" THEN [s EXCEPT !.tc_queue = << >>]
    ELSE s

\* a dispatch loop that hands the command to the subsystem whatever its
\* state
process_telecommand_off_dispatched(s, item) ==
    LET packet == from_bytes(item.d.header)
        json == item.d.json
    IN  IF packet.packet_type # 1 THEN s
        ELSE IF ~json.ok THEN s
        ELSE IF json.subsystem \notin RtSubsystems
             THEN [s EXCEPT !.unknown_warnings =
                               Append(@, [rcv |-> item.rcv, subsystem |-> json.subsystem])]
        ELSE [rt_process_command(s, json.subsystem, json) EXCEPT
                 !.applied = Append(s.applied,
                                    [rcv |-> item.rcv, subsystem |-> json.subsystem,
                                     command |-> json.command, value |-> json.value])]

\* the body of the loop of OBCSubsystem._process_telecommands for one item
process_telecommand(s, item) ==
    LET packet == from_bytes(item.d.header)
        json == item.d.json
    IN  IF packet.packet_type # 1 THEN s
        ELSE IF ~json.ok THEN s
        ELSE IF json.subsystem \notin RtSubsystems
             THEN [s EXCEPT !.unknown_warnings =
                               Append(@, [rcv |-> item.rcv, subsystem |-> json.subsystem])]
        ELSE IF s.state[json.subsystem] = "OFF"
             THEN [s EXCEPT !.off_warnings =
                               Append(@, [rcv |-> item.rcv, subsystem |-> json.subsystem,
                                          command |-> json.command, value |-> json.value])]
        ELSE [rt_process_command(s, json.subsystem, json) EXCEPT
                 !.applied = Append(s.applied,
                                    [rcv |-> item.rcv, subsystem |-> json.subsystem,
                                     command |-> json.command, value |-> json.value])]

\* OBCSubsystem._process_telecommands: while the queue is not empty
RECURSIVE process_telecommands(_)
process_telecommands(s) ==
    IF s.tc_queue = << >> THEN s
    ELSE LET g == tc_queue_get(s.tc_queue) IN
         process_telecommands(process_telecommand([s EXCEPT !.tc_queue = g.rest], g.item))

\* the part of OBCSubsystem.update that handles telecommands
obc_update(s) == IF s.obc_state = "OFF" THEN s ELSE process_telecommands(s)

\* the part of CommunicationsSubsystem.update that handles telecommands
comms_update(s) ==
    IF s.state["COMMS"] = "OFF" \/ s.comms_mode = "OFF" THEN s
    ELSE IF s.comms_mode \in { "RX", "TXRX" } THEN check_incoming_tc(s)
    ELSE s

----------------------------------------------------------------------------
(* Inputs                                                                  *)

\* command IDs on the wire: the ends of every decade, the IDs the handlers
\* know, and IDs outside every decade
CommandIds == { 5, 9, 10, 13, 14, 19, 20, 22, 29, 30, 33, 34, 39, 40, 43, 44, 49,
                50, 53, 59, 60, 64, 69, 70, 85 }

\* four big-endian float32: 0.0, 0.0, 0.0, 1.0
QuaternionPayload == << 0, 0, 0, 0,  0, 0, 0, 0,  0, 0, 0, 0,  63, 128, 0, 0 >>

\* command payloads: empty, one byte, a float32 (25.0), a quaternion
Payloads == { << >>, << 3 >>, << 5 >>, << 65, 200, 0, 0 >>, QuaternionPayload }

\* the IDs a handler is called with: its own commands, one unknown ID
\* of its decade and one outside it
HandlerIds(base) == { base, base + 2, base + 3, base + 4, base + 9, 85 }

\* what ADCSModule.process_command is called with in SpecADCS
AdcsIds == { 30, 32, 33, 34, 39 }
AdcsPayloads == { << >>, << 0 >>, << 1 >>, << 3 >>, << 5 >>, << 255 >>,
                  << 65, 200, 0, 0 >>, QuaternionPayload }

\* SET_MODE with every payload; the other commands with a payload of the
\* size they unpack and with one of another size
AdcsCommands ==
    { c \in AdcsIds \X AdcsPayloads :
        \/ c[1] = 33
        \/ c[1] = 30 /\ c[2] \in { << >>, << 1 >> }
        \/ c[1] = 32 /\ c[2] \in { << >>, << 65, 200, 0, 0 >> }
        \/ c[1] = 34 /\ c[2] \in { << 3 >>, QuaternionPayload }
        \/ c[1] = 39 /\ c[2] = << >> }

\* the CCSDS primary header and the 4-byte timestamp of a telecommand
TcHeader == << 24, 100, 192, 0, 0, 0,  0, 0, 0, 0 >>
Datagram(command_id, command_data) == TcHeader \o U16BE(command_id) \o command_data

\* datagrams: well-formed ones, and ones cut before or inside the command ID
Datagrams ==
    { Datagram(i, d) : i \in CommandIds, d \in Payloads }
    \cup { << >>, SubSeq(TcHeader, 1, 6), TcHeader \o << 0 >> }

\* what send_tm_packet is handed: a telemetry packet as CDH builds it, and
\* an empty one
SendPackets == { create_tm_packet(CDH_init).packet, << >> }

\* what one ADCS update draws from outside the module.  Only the draws the
\* branch taken reads are varied
Targets == { << 0, 0, 0 >>, << 93000, -1500, 2500 >>, << -60000, 45000, 170000 >> }
RandErrors == { << 0, 0, 0 >>, << 100, -100, 50 >> }
RateNoises == { << 0, 0, 0 >>, << 100, -100, -50 >> }
RestNoises == { << 1, -1, 0 >> }
DriftRates == { << 1, 1, 1 >>, << 100, 50, 1 >> }

Draw(fail, target, rand_error, rate_noise, rest_noise, rates) ==
    [fail |-> fail, target |-> target, rand_error |-> rand_error,
     rate_noise |-> rate_noise, rest_noise |-> rest_noise, rates |-> rates]

NoDraw(fail) == Draw(fail, << 0, 0, 0 >>, << 0, 0, 0 >>, << 0, 0, 0 >>, << 0, 0, 0 >>, << 1, 1, 1 >>)

Draws(m) ==
    { NoDraw("orbit"), NoDraw("environment"), NoDraw("attitude") } \cup
    (IF m.mode = 0
     THEN { Draw("none", << 0, 0, 0 >>, << 0, 0, 0 >>, << 0, 0, 0 >>, << 0, 0, 0 >>, r) : r \in DriftRates }
     ELSE IF m.status = 2 \/ m.mode = 1
     THEN { Draw("none", << 0, 0, 0 >>, n, << 0, 0, 0 >>, << 0, 0, 0 >>, << 1, 1, 1 >>) : n \in RandErrors }
     ELSE { Draw("none", t, << 0, 0, 0 >>, n, w, << 1, 1, 1 >>) :
                t \in Targets, n \in RateNoises, w \in RestNoises })

\* four big-endian float32: 2.0, 0.0, 0.0, 0.0
NonUnitPayload == << 64, 0, 0, 0,  0, 0, 0, 0,  0, 0, 0, 0,  0, 0, 0, 0 >>
\* four big-endian float32 0.0
ZeroPayload == << 0, 0, 0, 0,  0, 0, 0, 0,  0, 0, 0, 0,  0, 0, 0, 0 >>

\* the attitude commands of SpecAtt: SET_MODE LOCK and NADIR, and
\* SET_QUATERNION with a unit, a non-unit and the zero quaternion
AttCommands ==
    { << 33, << 1 >> >>, << 33, << 3 >> >>,
      << 34, QuaternionPayload >>, << 34, NonUnitPayload >>, << 34, ZeroPayload >> }

\* the desired attitude of the mode on a tick of SpecAtt: within the
\* threshold of the configured attitude, and a quarter turn away from it
AttTargets == { << 93000, -1500, 2500 >>, << 0, 0, 0 >> }

\* what an update of SpecAtt draws.  The desired attitude is a fact of the
\* orbit state on every tick, whether or not the branch taken computes it
AttDraws(m) ==
    { NoDraw("orbit"), NoDraw("environment"), NoDraw("attitude") } \cup
    (IF m.mode = 0
     THEN { Draw("none", t, << 0, 0, 0 >>, << 0, 0, 0 >>, << 0, 0, 0 >>, << 100, 50, 1 >>) :
                t \in AttTargets }
     ELSE IF m.status = 2 \/ m.mode = 1
     THEN { Draw("none", t, << 90, -100, 50 >>, << 0, 0, 0 >>, << 0, 0, 0 >>, << 1, 1, 1 >>) :
                t \in AttTargets }
     ELSE { Draw("none", t, << 0, 0, 0 >>, n, w, << 1, 1, 1 >>) :
                t \in AttTargets, n \in RateNoises, w \in RestNoises })

\* Scenario B: the desired NADIR attitude stays where the first tick found
\* it, a quarter turn in roll from the configured attitude, with and
\* without one degree in pitch
SlewTargets == { << 0, 0, 0 >>, << 0, 1000, 0 >> }
SlewRateNoises == { << 0, 0, 0 >>, << 50, -50, 20 >> }

SlewDraws(m) ==
    LET targets == IF n_ticks = 0 THEN SlewTargets ELSE { drawn.target } IN
    IF m.status = 2
    THEN { Draw("none", t, n, << 0, 0, 0 >>, << 0, 0, 0 >>, << 1, 1, 1 >>) :
               t \in targets, n \in RandErrors }
    ELSE { Draw("none", t, << 0, 0, 0 >>, n, w, << 1, 1, 1 >>) :
               t \in targets, n \in SlewRateNoises, w \in RestNoises }

\* the noise on the slew rate of each axis, in millidegrees per second
LiveRateNoises == { << 50, -50, 20 >> }

\* what an update draws after a SET_MODE to a pointing mode: the desired
\* attitude stays where the first tick found it; the LOCK and
\* POINTING_ACHIEVED branch draws its jitter, the tracking branches their
\* rate noise
LiveDraws(m) ==
    LET targets == IF n_ticks = 0 THEN SlewTargets ELSE { drawn.target } IN
    IF m.status = 2 \/ m.mode = 1
    THEN { Draw("none", t, n, << 0, 0, 0 >>, << 0, 0, 0 >>, << 1, 1, 1 >>) :
               t \in targets, n \in { << 0, 0, 0 >>, << 90, -100, 50 >> } }
    ELSE { Draw("none", t, << 0, 0, 0 >>, n, w, << 1, 1, 1 >>) :
               t \in targets, n \in LiveRateNoises, w \in RestNoises }

\* CCSDS headers of a telecommand and of a telemetry packet
RtTcHeader == << 24, 100, 192, 0, 0, 30 >>
RtTmHeader == << 8, 100, 192, 0, 0, 30 >>
RtJson(subsystem, command, value) ==
    [ok |-> TRUE, subsystem |-> subsystem, command |-> command, value |-> value]

\* what arrives on the TC socket: ADCS mode changes, a command that empties
\* the TC queue, commands that switch the ADCS off and on, an OBC mode
\* change, one for a subsystem that is not registered, a payload that is
\* not JSON, and a packet that is not a telecommand
RtDatagrams ==
    { [header |-> RtTcHeader, json |-> RtJson("ADCS", "SET_MODE", "LOCK")],
      [header |-> RtTcHeader, json |-> RtJson("ADCS", "SET_MODE", "NADIR")],
      [header |-> RtTcHeader, json |-> RtJson("ADCS", "SET_STATE", "OFF")],
      [header |-> RtTcHeader, json |-> RtJson("ADCS", "SET_STATE", "IDLE")],
      [header |-> RtTcHeader, json |-> RtJson("OBC", "SET_MODE", "NOMINAL")],
      [header |-> RtTcHeader, json |-> RtJson("COMMS", "CLEAR_TC_QUEUE", "")],
      [header |-> RtTcHeader, json |-> RtJson("GPS", "SET_MODE", "LOCK")],
      [header |-> RtTcHeader, json |-> [ok |-> FALSE]],
      [header |-> RtTmHeader, json |-> RtJson("ADCS", "SET_MODE", "LOCK")] }

RtCommsModes == { "OFF", "RX" }

\* packet objects: every field at both ends of its range, the header of
\* a telemetry packet with a secondary header, and an APID that does not
\* fit its 11 bits
PacketVersions == { 0, 7 }
PacketTypes == { 0, 1 }
PacketFlags == { 0, 1 }
PacketApids == { 0, 100, 2047, 2148 }
PacketSeqFlags == { 0, 3 }
PacketSeqCounts == { 0, 5, 16383 }
PacketPayloads == { << >>, << 1, 2, 255 >> }

\* the packets of the test data file
StreamPackets ==
    { [CCSDSPacket_init EXCEPT !.apid = a, !.sequence_count = sc, !.payload = pl] :
        a \in { 100, 2047 }, sc \in { 0, 5 }, pl \in PacketPayloads \cup { << 7 >> } }

----------------------------------------------------------------------------
(* Operations                                                              *)

NextCall(op, id, data) == call' = [op |-> op, seq |-> call.seq + 1, id |-> id, data |-> data]

\* CommsModule.start
CommsStart ==
    /\ tc_thread = "not_started"
    /\ comms' = [comms EXCEPT !.running = TRUE]
    /\ tc_thread' = "listening"
    /\ NextCall("CommsModule.start", -1, << >>)
    /\ last_logs' = << Log("info", "started") >>
    /\ UNCHANGED << pbsim, scrt, obcsys, rt, sim, orbit, playback, drawn, pkt, wire, decoded, obc, power, adcs, payload, datastore, cdh, net_out, tm_packet,
                    packets_built, n_cmds, n_ticks, handled >>

\* one pass of the loop of CommsModule._tc_listener, from recvfrom returning
\* a datagram to the next test of self.running
TcListenerReceive(data) ==
    /\ tc_thread = "listening"
    /\ LET u == unpack_H(Slice(data, 10, 12))
           command_data == SliceFrom(data, 12)
           received == [comms EXCEPT !.packets_received = @ + 1]
       IN  /\ comms' = received
           /\ IF ~u.ok
              THEN /\ tc_thread' = IF received.running THEN "listening" ELSE "exited"
                   /\ NextCall("CommsModule._tc_listener", -1, data)
                   /\ last_logs' = << Log("info", "received"), Log("error", "parse") >>
                   /\ cdh' = cdh
              ELSE LET r == CDH_process_command(cdh, 2) IN
                   /\ cdh' = r.st
                   /\ tc_thread' = IF r.raised # "none" THEN "died"
                                   ELSE IF received.running THEN "listening" ELSE "exited"
                   /\ NextCall("CDHModule.process_command", u.v, command_data)
                   /\ last_logs' = << Log("info", "received") >> \o r.logs
    /\ UNCHANGED << pbsim, scrt, obcsys, rt, sim, orbit, playback, drawn, pkt, wire, decoded, obc, power, adcs, payload, datastore, net_out, tm_packet,
                    packets_built, n_cmds, n_ticks, handled >>

\* recvfrom raises socket.error: the listener logs it and leaves its loop
TcListenerSocketError ==
    /\ tc_thread = "listening"
    /\ tc_thread' = "exited"
    /\ NextCall("CommsModule._tc_listener", -1, << >>)
    /\ last_logs' = IF comms.running THEN << Log("error", "socket") >> ELSE << >>
    /\ UNCHANGED << pbsim, scrt, obcsys, rt, sim, orbit, playback, drawn, pkt, wire, decoded, obc, power, adcs, comms, payload, datastore, cdh, net_out,
                    tm_packet, packets_built, n_cmds, n_ticks, handled >>

\* CommsModule.stop
CommsStop ==
    /\ comms.running
    /\ comms' = [comms EXCEPT !.running = FALSE]
    /\ NextCall("CommsModule.stop", -1, << >>)
    /\ last_logs' = << Log("info", "stopped") >>
    /\ UNCHANGED << pbsim, scrt, obcsys, rt, sim, orbit, playback, drawn, pkt, wire, decoded, obc, power, adcs, payload, datastore, cdh, tc_thread, net_out,
                    tm_packet, packets_built, n_cmds, n_ticks, handled >>

\* CDHModule.process_command(command_data), called as it is declared
CDHProcessCommand(command_data) ==
    /\ LET r == CDH_process_command(cdh, 1) IN
       /\ cdh' = r.st
       /\ last_logs' = r.logs
    /\ NextCall("CDHModule.process_command", -1, command_data)
    /\ UNCHANGED << pbsim, scrt, obcsys, rt, sim, orbit, playback, drawn, pkt, wire, decoded, obc, power, adcs, comms, payload, datastore, tc_thread, net_out,
                    tm_packet, packets_built, n_cmds, n_ticks, handled >>

Handle(sub, id, data) ==
    handled' = [sub |-> sub, seq |-> call.seq + 1, id |-> id, data |-> data]

OBCProcessCommand(id, data) ==
    /\ LET r == OBC_process_command(obc, id, data) IN obc' = r.st /\ last_logs' = r.logs
    /\ NextCall("OBCModule.process_command", id, data)
    /\ Handle("OBC", id, data)
    /\ UNCHANGED << pbsim, scrt, obcsys, rt, sim, orbit, playback, drawn, pkt, wire, decoded, power, adcs, comms, payload, datastore, cdh, tc_thread, net_out,
                    tm_packet, packets_built, n_cmds, n_ticks >>

POWERProcessCommand(id, data) ==
    /\ LET r == POWER_process_command(power, id, data) IN power' = r.st /\ last_logs' = r.logs
    /\ NextCall("PowerModule.process_command", id, data)
    /\ Handle("POWER", id, data)
    /\ UNCHANGED << pbsim, scrt, obcsys, rt, sim, orbit, playback, drawn, pkt, wire, decoded, obc, adcs, comms, payload, datastore, cdh, tc_thread, net_out,
                    tm_packet, packets_built, n_cmds, n_ticks >>

ADCSProcessCommand(id, data) ==
    /\ LET r == ADCS_process_command(adcs, id, data) IN adcs' = r.st /\ last_logs' = r.logs
    /\ NextCall("ADCSModule.process_command", id, data)
    /\ Handle("ADCS", id, data)
    /\ n_cmds' = n_cmds + 1
    /\ UNCHANGED << pbsim, scrt, obcsys, rt, sim, orbit, playback, drawn, pkt, wire, decoded, obc, power, comms, payload, datastore, cdh, tc_thread, net_out,
                    tm_packet, packets_built, n_ticks >>

COMMSProcessCommand(id, data) ==
    /\ LET r == COMMS_process_command(comms, id, data) IN comms' = r.st /\ last_logs' = r.logs
    /\ NextCall("CommsModule.process_command", id, data)
    /\ Handle("COMMS", id, data)
    /\ UNCHANGED << pbsim, scrt, obcsys, rt, sim, orbit, playback, drawn, pkt, wire, decoded, obc, power, adcs, payload, datastore, cdh, tc_thread, net_out,
                    tm_packet, packets_built, n_cmds, n_ticks >>

PAYLOADProcessCommand(id, data) ==
    /\ LET r == PAYLOAD_process_command(payload, id, data) IN payload' = r.st /\ last_logs' = r.logs
    /\ NextCall("PayloadModule.process_command", id, data)
    /\ Handle("PAYLOAD", id, data)
    /\ UNCHANGED << pbsim, scrt, obcsys, rt, sim, orbit, playback, drawn, pkt, wire, decoded, obc, power, adcs, comms, datastore, cdh, tc_thread, net_out,
                    tm_packet, packets_built, n_cmds, n_ticks >>

\* the names os.listdir may return
Listings == { { }, { "a.png" } }

DATASTOREProcessCommand(id, data) ==
    /\ \E listing \in Listings, found \in BOOLEAN, copy_ok \in BOOLEAN :
         /\ found => listing # { }
         /\ LET r == DATASTORE_process_command(datastore, id, data, listing, found, copy_ok)
            IN  datastore' = r.st /\ last_logs' = r.logs
    /\ NextCall("DatastoreModule.process_command", id, data)
    /\ Handle("DATASTORE", id, data)
    /\ UNCHANGED << pbsim, scrt, obcsys, rt, sim, orbit, playback, drawn, pkt, wire, decoded, obc, power, adcs, comms, payload, cdh, tc_thread, net_out,
                    tm_packet, packets_built, n_cmds, n_ticks >>

\* ADCSModule.update(current_time).  A call with the time of the last update
\* returns before anything is drawn
ADCSUpdate(current_time, e) ==
    /\ adcs' = ADCS_update(adcs, current_time, e)
    /\ NextCall("ADCSModule.update", current_time, << >>)
    /\ n_ticks' = n_ticks + 1
    /\ drawn' = IF current_time = adcs.last_update_time THEN NoDraw("none") ELSE e
    /\ last_logs' = IF current_time # adcs.last_update_time /\ e.fail # "none"
                    THEN << Log("error", "update") >> ELSE << >>
    /\ UNCHANGED << pbsim, scrt, obcsys, rt, sim, orbit, playback, pkt, wire, decoded, obc, power, comms, payload, datastore, cdh, tc_thread, net_out,
                    tm_packet, packets_built, n_cmds, handled >>

----------------------------------------------------------------------------
(* Simulator (simulator.py) and the telemetry side of CommsModule          *)

SIM_init == [running |-> FALSE, loop |-> "not_started", mission_elapsed_time |-> 0,
             ended_by |-> "none"]

\* CommsModule.stop has run: both sockets are closed
SocketsClosed == tc_thread # "not_started" /\ ~comms.running

\* a send_tm_packet that advances the counter before sendto is tried
COMMS_send_tm_packet_counted_first(m, nargs, sent) ==
    IF nargs # 1 THEN Raised(m, << >>, "TypeError")
    ELSE IF sent THEN Returned([m EXCEPT !.packets_sent = @ + 1], << Log("debug", "sent") >>)
    ELSE Returned([m EXCEPT !.packets_sent = @ + 1], << Log("error", "socket") >>)

\* CommsModule.send_tm_packet called with nargs arguments; sent tells whether
\* sendto succeeded.  Only socket.error is caught
COMMS_send_tm_packet(m, nargs, sent) ==
    IF nargs # 1 THEN Raised(m, << >>, "TypeError")
    ELSE IF sent THEN Returned([m EXCEPT !.packets_sent = @ + 1], << Log("debug", "sent") >>)
    ELSE Returned(m, << Log("error", "socket") >>)

\* Simulator._update_subsystems: the temperature is advanced, then
\* send_tm_packet is called without its packet argument
update_subsystems(c, m) ==
    LET warmed == [c EXCEPT !.adcs_temperature = @ + 1]
        r == COMMS_send_tm_packet(m, 0, TRUE)
    IN  [cdh |-> warmed, comms |-> r.st, raised |-> r.raised]

\* Simulator.start up to its main loop
SimStart ==
    /\ sim.loop = "not_started"
    /\ tc_thread = "not_started"
    /\ sim' = [sim EXCEPT !.running = TRUE, !.loop = "looping"]
    /\ comms' = [comms EXCEPT !.running = TRUE]
    /\ tc_thread' = "listening"
    /\ NextCall("Simulator.start", -1, << >>)
    /\ last_logs' = << Log("info", "started"), Log("info", "Simulator started") >>
    /\ UNCHANGED << pbsim, scrt, obcsys, rt, orbit, playback, drawn, pkt, wire, decoded, obc, power, adcs, payload,
                    datastore, cdh, net_out, tm_packet, packets_built, n_cmds, n_ticks,
                    handled >>

\* one pass of the main loop of Simulator.start.  interrupted: a
\* KeyboardInterrupt is raised while the pass sleeps
SimTick(interrupted) ==
    /\ sim.loop = "looping"
    /\ sim.running
    /\ IF interrupted
       THEN /\ sim' = [sim EXCEPT !.running = FALSE, !.loop = "ended",
                                  !.ended_by = "KeyboardInterrupt"]
            /\ comms' = [comms EXCEPT !.running = FALSE]
            /\ cdh' = cdh
            /\ last_logs' = << Log("info", "stopped"), Log("info", "Simulator stopped") >>
       ELSE LET u == update_subsystems(cdh, comms) IN
            /\ cdh' = u.cdh
            /\ IF u.raised # "none"
               THEN /\ sim' = [sim EXCEPT !.mission_elapsed_time = @ + time_step,
                                          !.running = FALSE, !.loop = "ended",
                                          !.ended_by = "Exception"]
                    /\ comms' = [u.comms EXCEPT !.running = FALSE]
                    /\ last_logs' = << Log("error", "loop"), Log("info", "stopped"),
                                       Log("info", "Simulator stopped") >>
               ELSE /\ sim' = [sim EXCEPT !.mission_elapsed_time = @ + time_step]
                    /\ comms' = u.comms
                    /\ last_logs' = << >>
    /\ NextCall("Simulator.tick", IF interrupted THEN 1 ELSE 0, << >>)
    /\ UNCHANGED << pbsim, scrt, obcsys, rt, orbit, playback, drawn, pkt, wire, decoded, obc, power, adcs, payload,
                    datastore, tc_thread, net_out, tm_packet, packets_built, n_cmds,
                    n_ticks, handled >>

\* the loop test of Simulator.start finds running cleared by a stop
SimLoopExit ==
    /\ sim.loop = "looping"
    /\ ~sim.running
    /\ sim' = [sim EXCEPT !.loop = "ended", !.ended_by = "stop"]
    /\ NextCall("Simulator.loop_exit", -1, << >>)
    /\ last_logs' = << >>
    /\ UNCHANGED << pbsim, scrt, obcsys, rt, orbit, playback, drawn, pkt, wire, decoded, obc, power, adcs, comms,
                    payload, datastore, cdh, tc_thread, net_out, tm_packet, packets_built,
                    n_cmds, n_ticks, handled >>

\* Simulator.stop, called from outside the loop
SimStop ==
    /\ sim.running
    /\ sim' = [sim EXCEPT !.running = FALSE]
    /\ comms' = [comms EXCEPT !.running = FALSE]
    /\ NextCall("Simulator.stop", -1, << >>)
    /\ last_logs' = << Log("info", "stopped"), Log("info", "Simulator stopped") >>
    /\ UNCHANGED << pbsim, scrt, obcsys, rt, orbit, playback, drawn, pkt, wire, decoded, obc, power, adcs, payload,
                    datastore, cdh, tc_thread, net_out, tm_packet, packets_built, n_cmds,
                    n_ticks, handled >>

\* CommsModule.send_tm_packet(packet), called as it is declared.  sendto
\* fails on a closed socket and may fail on an open one
CommsSendTmPacket(packet, sent) ==
    /\ SocketsClosed => ~sent
    /\ LET r == COMMS_send_tm_packet(comms, 1, sent) IN
       /\ comms' = r.st
       /\ last_logs' = r.logs
    /\ net_out' = IF sent THEN net_out + 1 ELSE net_out
    /\ NextCall("CommsModule.send_tm_packet", IF sent THEN 1 ELSE 0, packet)
    /\ UNCHANGED << pbsim, scrt, obcsys, rt, sim, orbit, playback, drawn, pkt, wire, decoded, obc, power, adcs,
                    payload, datastore, cdh, tc_thread, tm_packet, packets_built, n_cmds,
                    n_ticks, handled >>

----------------------------------------------------------------------------
(* OrbitPropagator (apps/universe/orbit.py).  Times are seconds, counted    *)
(* from SIM_CONFIG['mission_start_time']                                   *)

mission_start == 0

\* 2 pi sqrt(a^3 / mu) for a = 6878 km, rounded to seconds
OrbitPeriod == 5677

\* OrbitPropagator._calculate_state: a function of the time alone (the
\* elements are fixed at construction).  Of the state it returns, the
\* time and the mean anomaly, in whole degrees, are kept
calculate_state(time) ==
    LET dt == time - mission_start
    IN  [time |-> time, mean_anomaly |-> ((360 * dt) \div OrbitPeriod) % 360]

\* n_calculated counts the calls of _calculate_state; returned is what the
\* last propagate returned and cached whether it did so without calculating
ORBIT_init ==
    [last_update_time |-> mission_start, current_state |-> calculate_state(mission_start),
     n_calculated |-> 1, returned |-> NoneVal, cached |-> FALSE]

\* OrbitPropagator.propagate, with last_update_time left as it was
propagate_time_not_stored(o, current_time) ==
    IF current_time # o.last_update_time
    THEN [o EXCEPT !.current_state = calculate_state(current_time),
                   !.n_calculated = @ + 1,
                   !.returned = calculate_state(current_time), !.cached = FALSE]
    ELSE [o EXCEPT !.returned = o.current_state, !.cached = TRUE]

\* OrbitPropagator.propagate
propagate(o, current_time) ==
    IF current_time # o.last_update_time
    THEN [o EXCEPT !.current_state = calculate_state(current_time),
                   !.last_update_time = current_time,
                   !.n_calculated = @ + 1,
                   !.returned = calculate_state(current_time), !.cached = FALSE]
    ELSE [o EXCEPT !.returned = o.current_state, !.cached = TRUE]

\* the times propagate is queried at: the epoch, the seconds after it, one
\* period later, and a time before the epoch
OrbitTimes == { mission_start, 1, 2, OrbitPeriod, -1 }

\* orbit_state = orbit_propagator.propagate(current_time)
OrbitPropagate(current_time) ==
    /\ orbit' = propagate(orbit, current_time)
    /\ NextCall("OrbitPropagator.propagate", current_time, << >>)
    /\ last_logs' = IF current_time # orbit.last_update_time
                    THEN << Log("debug", "orbit updated") >> ELSE << >>
    /\ UNCHANGED << pbsim, scrt, obcsys, rt, sim, playback, drawn, pkt, wire, decoded, obc, power, adcs, comms,
                    payload, datastore, cdh, tc_thread, net_out, tm_packet, packets_built,
                    n_cmds, n_ticks, handled >>

----------------------------------------------------------------------------
(* The playback Simulator (src/simulator.py): the counters its two threads *)
(* write and print_status reads.  The test data file is the number of      *)
(* passes the loop of send_tm makes over it.  sent counts the sendto       *)
(* calls, received lists the datagrams recvfrom returned; data, test,      *)
(* cmdhex and tm_read are locals of the threads and of print_status;       *)
(* reported is what print_status returned last and n_reports tells         *)
(* whether it has returned yet.  A bytes object is [bytes |-> ...], a str  *)
(* [str |-> ...], None is NoneVal.                                         *)

\* Simulator.__init__, no thread started
PBSIM_init ==
    [tm_counter |-> 0, tc_counter |-> 0, last_tc |-> NoneVal,
     tm_pc |-> "not_started", tc_pc |-> "not_started", st_pc |-> "idle",
     passes_left |-> 0, sent |-> 0, received |-> << >>, data |-> << >>,
     test |-> FALSE, cmdhex |-> NoneVal, tm_read |-> 0,
     reported |-> [sent |-> 0, received |-> 0, last_command |-> NoneVal], n_reports |-> 0]

\* binascii.hexlify(data).decode('ascii'): two hex digits per byte
HexDigits == << "0", "1", "2", "3", "4", "5", "6", "7",
                "8", "9", "a", "b", "c", "d", "e", "f" >>
hexlify(data) ==
    [i \in 1..(2 * Len(data)) |->
        IF i % 2 = 1 THEN HexDigits[(data[(i + 1) \div 2] \div 16) + 1]
        ELSE HexDigits[(data[i \div 2] % 16) + 1]]

\* everything but pbsim
pbsim_frame == << obc, power, adcs, comms, payload, datastore, cdh, tc_thread, net_out,
                 tm_packet, packets_built, pkt, wire, decoded, call, n_cmds, n_ticks,
                 drawn, handled, rt, sim, orbit, playback, scrt, obcsys, last_logs >>

\* Simulator.start: both threads are started; the test data file holds
\* what makes the loop of send_tm pass n times
PbStart(n) ==
    /\ pbsim.tm_pc = "not_started"
    /\ pbsim' = [pbsim EXCEPT !.tm_pc = "open", !.tc_pc = "recvfrom", !.passes_left = n]
    /\ UNCHANGED pbsim_frame

\* send_tm: simulator.tm_counter = 1, before the loop
PbTmInit ==
    /\ pbsim.tm_pc = "open"
    /\ pbsim' = [pbsim EXCEPT !.tm_counter = 1, !.tm_pc = "loop"]
    /\ UNCHANGED pbsim_frame

\* send_tm: a header is read and the packet sent
PbTmSend ==
    /\ pbsim.tm_pc = "loop"
    /\ pbsim.passes_left > 0
    /\ pbsim' = [pbsim EXCEPT !.sent = @ + 1, !.passes_left = @ - 1, !.tm_pc = "count"]
    /\ UNCHANGED pbsim_frame

\* send_tm: simulator.tm_counter += 1
PbTmCount ==
    /\ pbsim.tm_pc = "count"
    /\ pbsim' = [pbsim EXCEPT !.tm_counter = @ + 1, !.tm_pc = "loop"]
    /\ UNCHANGED pbsim_frame

\* receive_tc: recvfrom returns the datagram d
PbTcRecv(d) ==
    /\ pbsim.tc_pc = "recvfrom"
    /\ pbsim' = [pbsim EXCEPT !.data = d, !.received = Append(@, d), !.tc_pc = "store"]
    /\ UNCHANGED pbsim_frame

\* receive_tc: simulator.last_tc = data
PbTcStore ==
    /\ pbsim.tc_pc = "store"
    /\ pbsim' = [pbsim EXCEPT !.last_tc = [bytes |-> pbsim.data], !.tc_pc = "count"]
    /\ UNCHANGED pbsim_frame

\* receive_tc: simulator.tc_counter += 1
PbTcCount ==
    /\ pbsim.tc_pc = "count"
    /\ pbsim' = [pbsim EXCEPT !.tc_counter = @ + 1, !.tc_pc = "recvfrom"]
    /\ UNCHANGED pbsim_frame

\* print_status: if self.last_tc
PbStatusTest ==
    /\ pbsim.st_pc = "idle"
    /\ pbsim' = [pbsim EXCEPT !.test = (pbsim.last_tc # NoneVal
                                           /\ pbsim.last_tc # [bytes |-> << >>]),
                              !.cmdhex = NoneVal, !.st_pc = "hexlify"]
    /\ UNCHANGED pbsim_frame

\* print_status: cmdhex = binascii.hexlify(self.last_tc).decode('ascii')
PbStatusHexlify ==
    /\ pbsim.st_pc = "hexlify"
    /\ pbsim' = [pbsim EXCEPT !.cmdhex = IF pbsim.test
                                         THEN [str |-> hexlify(pbsim.last_tc.bytes)]
                                         ELSE NoneVal,
                              !.st_pc = "read_tm"]
    /\ UNCHANGED pbsim_frame

\* print_status: self.tm_counter is read for the format call
PbStatusReadTm ==
    /\ pbsim.st_pc = "read_tm"
    /\ pbsim' = [pbsim EXCEPT !.tm_read = pbsim.tm_counter, !.st_pc = "read_tc"]
    /\ UNCHANGED pbsim_frame

\* print_status: self.tc_counter is read and the status returned
PbStatusReturn ==
    /\ pbsim.st_pc = "read_tc"
    /\ pbsim' = [pbsim EXCEPT !.reported = [sent |-> pbsim.tm_read,
                                            received |-> pbsim.tc_counter,
                                            last_command |-> pbsim.cmdhex],
                              !.n_reports = IF @ < MaxReports THEN @ + 1 ELSE @,
                              !.st_pc = "idle"]
    /\ UNCHANGED pbsim_frame

\* the telecommand datagrams: one byte, two bytes, none
PbDatagrams == { << 26 >>, << 1, 255 >>, << >> }

----------------------------------------------------------------------------
(* simulator_runtime: the telemetry path, the payload and the datastore    *)
(*                                                                         *)
(* Sizes are in MB: the camera of spacecraft_config makes images of        *)
(* 2048 * 2048 * 12 / (8 * 1024 * 1024) = 6 MB, written at 2 MB/s.         *)
(* image_progress is kept as the MB written, the fraction of the code      *)
(* times image_size; a file is its size.                                   *)
(* A telemetry packet is its sequence count and its length in bytes.       *)

\* the subsystems an OBCSubsystem is given to register, and the three the
\* PAYLOAD mode requires
ObcSubsystems == { "POWER", "ADCS", "PAYLOAD", "DATASTORE" }
required_subsystems == { "ADCS", "PAYLOAD", "DATASTORE" }
OBCModes == { "SAFE", "NOMINAL", "PAYLOAD" }

\* an OBCSubsystem and the subsystems as their constructors leave them:
\* every state OFF, the OBC in SAFE mode with nothing registered, the ADCS
\* in mode OFF.  warned: the last update logged that the mode requirements
\* were not met
OBCSYS_init ==
    [op |-> "init", arg |-> "", returned |-> TRUE, warned |-> FALSE,
     state |-> "OFF", mode |-> "SAFE", subsystems |-> { },
     sub_state |-> [t \in ObcSubsystems |-> "OFF"],
     adcs_mode |-> "OFF"]

\* OBCSubsystem._can_change_mode
can_change_mode(s, new_mode) ==
    IF s.state = "OFF" THEN FALSE
    ELSE IF new_mode = "PAYLOAD"
         THEN \A t \in required_subsystems :
                  t \in s.subsystems /\ s.sub_state[t] # "OFF"
         ELSE TRUE

\* OBCSubsystem._change_mode with _configure_safe_mode,
\* _configure_nominal_mode and _configure_payload_mode
change_mode(s, new_mode) ==
    LET adcs_to == IF new_mode = "SAFE" THEN "SUNPOINTING" ELSE "NADIR"
        payload_to == IF new_mode = "SAFE" THEN "OFF"
                      ELSE IF new_mode = "PAYLOAD" THEN "IDLE"
                      ELSE s.sub_state["PAYLOAD"]
    IN  [s EXCEPT !.mode = new_mode,
                  !.adcs_mode = IF "ADCS" \in s.subsystems THEN adcs_to ELSE @,
                  !.sub_state["PAYLOAD"] =
                      IF "PAYLOAD" \in s.subsystems THEN payload_to ELSE @]

\* OBCSubsystem._reset_spacecraft
reset_spacecraft(s) ==
    [s EXCEPT !.mode = "SAFE",
              !.sub_state = [t \in ObcSubsystems |->
                                IF t \notin s.subsystems THEN s.sub_state[t]
                                ELSE IF t \in { "POWER", "OBC", "COMMS" } THEN "IDLE"
                                ELSE "OFF"]]

\* an update that leaves the mode as it is
obc_mode_update_unchecked(s) == [s EXCEPT !.warned = FALSE]

\* OBCSubsystem.update with no telecommand queued: nothing while the OBC
\* is OFF, else _update_mode_requirements
obc_mode_update(s) ==
    IF s.state = "OFF" THEN [s EXCEPT !.warned = FALSE]
    ELSE IF ~can_change_mode(s, s.mode)
         THEN [change_mode(s, "SAFE") EXCEPT !.warned = TRUE]
         ELSE [s EXCEPT !.warned = FALSE]

\* everything but obcsys
obcsys_frame == << obc, power, adcs, comms, payload, datastore, cdh, tc_thread, net_out,
                  tm_packet, packets_built, pkt, wire, decoded, call, n_cmds, n_ticks,
                  drawn, handled, rt, sim, orbit, playback, scrt, pbsim, last_logs >>

\* OBCSubsystem.register_subsystem
ObcRegister(t) ==
    /\ obcsys' = [obcsys EXCEPT !.op = "register", !.arg = t, !.subsystems = @ \cup { t }]
    /\ UNCHANGED obcsys_frame

\* OBCSubsystem.process_command('SET_STATE', {'state': state})
ObcSetState(state) ==
    /\ obcsys' = [obcsys EXCEPT !.op = "set_state", !.arg = state, !.state = state,
                                !.returned = TRUE]
    /\ UNCHANGED obcsys_frame

\* process_command('SET_STATE', {'state': state}) of subsystem t
ObcSubSetState(t, state) ==
    /\ obcsys' = [obcsys EXCEPT !.op = "sub_set_state", !.arg = t,
                                !.sub_state[t] = state, !.returned = TRUE]
    /\ UNCHANGED obcsys_frame

\* OBCSubsystem.process_command('SET_MODE', {'mode': m})
ObcSetMode(m) ==
    /\ obcsys' =
           IF m \in OBCModes /\ can_change_mode(obcsys, m)
           THEN [change_mode(obcsys, m) EXCEPT !.op = "set_mode", !.arg = m,
                                               !.returned = TRUE]
           ELSE [obcsys EXCEPT !.op = "set_mode", !.arg = m, !.returned = FALSE]
    /\ UNCHANGED obcsys_frame

\* OBCSubsystem.process_command('RESET', {})
ObcReset ==
    /\ obcsys' = [reset_spacecraft(obcsys) EXCEPT !.op = "reset", !.arg = "",
                                                  !.returned = TRUE]
    /\ UNCHANGED obcsys_frame

\* OBCSubsystem.update
ObcUpdate ==
    /\ obcsys' = [obc_mode_update(obcsys) EXCEPT !.op = "update", !.arg = ""]
    /\ UNCHANGED obcsys_frame

total_storage == 1024
image_size == 6
downlink_rate == 115200
write_speed == 2

\* the Simulator once constructed: states from initial_states, COMMS in
\* mode OFF, the datastore empty
SC_init ==
    [op |-> "init", returned |-> TRUE,
     obc_state |-> "ACTIVE", comms_state |-> "ACTIVE", comms_mode |-> "OFF",
     tm_bitrate |-> downlink_rate, tm_sequence_count |-> 0,
     tm_queue |-> << >>, tm_sent |-> << >>,
     payload_state |-> "IDLE", status |-> "READY", imaging |-> FALSE,
     image_progress |-> 0,
     files |-> << >>, storage_remaining |-> total_storage]

\* OBCSubsystem.collect_telemetry, COMMS being registered: a packet of
\* len bytes is built and, unless COMMS is OFF, put on tm_queue
collect_telemetry(s, len) ==
    IF s.obc_state = "OFF" THEN s
    ELSE LET packet == [seq |-> s.tm_sequence_count, len |-> len]
             t == [s EXCEPT !.tm_sequence_count = (@ + 1) % (SeqCountMask + 1)]
         IN  IF s.comms_state # "OFF"
             THEN [t EXCEPT !.tm_queue = Append(@, packet)]
             ELSE t

\* int(self.tm_bitrate * dt / 8) with dt = time_step / time_factor = 1
bytes_per_update(tm_bitrate) == tm_bitrate \div 8

\* CommunicationsSubsystem._process_tm_queue: the head of the queue is
\* taken and handed to sendto while it fits what is left of this update's
\* bytes; tm_sent lists the packets handed to sendto and whether it
\* returned or raised socket.error
RECURSIVE process_tm_queue(_, _, _)
process_tm_queue(s, budget, send_ok) ==
    IF budget > 0 /\ s.tm_queue # << >>
    THEN LET packet == Head(s.tm_queue) IN
         IF packet.len <= budget
         THEN process_tm_queue(
                  [s EXCEPT !.tm_queue = Tail(@),
                            !.tm_sent = Append(@, [seq |-> packet.seq, ok |-> send_ok])],
                  budget - packet.len, send_ok)
         ELSE s
    ELSE s

\* the part of CommunicationsSubsystem.update that handles telemetry
comms_tm_update(s, send_ok) ==
    IF s.comms_state = "OFF" \/ s.comms_mode = "OFF" THEN s
    ELSE IF s.comms_mode \in { "TX", "TXRX" }
         THEN process_tm_queue(s, bytes_per_update(s.tm_bitrate), send_ok)
         ELSE s

\* DatastoreSubsystem.has_space
has_space(s, size_mb) == s.storage_remaining >= size_mb

\* a store_file that does not ask has_space
store_file_unchecked(s, size_mb) ==
    [s EXCEPT !.files = Append(@, size_mb),
              !.storage_remaining = @ - size_mb,
              !.returned = TRUE]

\* DatastoreSubsystem.store_file
store_file(s, size_mb) ==
    IF ~has_space(s, size_mb) THEN [s EXCEPT !.returned = FALSE]
    ELSE [s EXCEPT !.files = Append(@, size_mb),
                   !.storage_remaining = @ - size_mb,
                   !.returned = TRUE]

\* DatastoreSubsystem.process_command for CLEAR_DATASTORE and
\* DELETE_LAST_FILE
DATASTORE_rt_process_command(s, command) ==
    IF command = "CLEAR_DATASTORE"
    THEN [s EXCEPT !.files = << >>, !.storage_remaining = total_storage,
                   !.returned = TRUE]
    ELSE IF command = "DELETE_LAST_FILE"
    THEN IF s.files # << >>
         THEN [s EXCEPT !.files = SubSeq(@, 1, Len(@) - 1),
                        !.storage_remaining = @ + s.files[Len(s.files)],
                        !.returned = TRUE]
         ELSE [s EXCEPT !.returned = FALSE]
    ELSE [s EXCEPT !.returned = FALSE]

\* a start of imaging that leaves the status as it is
start_imaging_status_kept(s) ==
    IF s.payload_state = "OFF" \/ s.imaging THEN [s EXCEPT !.returned = FALSE]
    ELSE IF has_space(s, image_size)
         THEN [s EXCEPT !.imaging = TRUE, !.image_progress = 0,
                        !.payload_state = "ACTIVE", !.returned = TRUE]
         ELSE [s EXCEPT !.returned = FALSE]

\* PayloadSubsystem.start_imaging, the datastore reference being set
start_imaging(s) ==
    IF s.payload_state = "OFF" \/ s.imaging THEN [s EXCEPT !.returned = FALSE]
    ELSE IF has_space(s, image_size)
         THEN [s EXCEPT !.imaging = TRUE, !.image_progress = 0, !.status = "BUSY",
                        !.payload_state = "ACTIVE", !.returned = TRUE]
         ELSE [s EXCEPT !.returned = FALSE]

\* PayloadSubsystem.process_command
PAYLOAD_rt_process_command(s, command, value) ==
    IF command = "SET_STATE" THEN [s EXCEPT !.payload_state = value, !.returned = TRUE]
    ELSE IF command = "CAPTURE"
    THEN IF s.payload_state = "OFF" THEN [s EXCEPT !.returned = FALSE]
         ELSE IF s.status # "READY" THEN [s EXCEPT !.returned = FALSE]
         ELSE start_imaging(s)
    ELSE [s EXCEPT !.returned = FALSE]

\* PayloadSubsystem.complete_imaging
complete_imaging(s) ==
    IF ~s.imaging THEN s
    ELSE [store_file(s, image_size) EXCEPT
             !.imaging = FALSE, !.image_progress = 0, !.status = "READY",
             !.payload_state = "IDLE"]

\* PayloadSubsystem.update with dt = 1
PAYLOAD_rt_update(s) ==
    IF s.payload_state = "OFF"
    THEN [s EXCEPT !.status = "READY", !.imaging = FALSE, !.image_progress = 0]
    ELSE IF s.imaging
         THEN LET t == [s EXCEPT !.image_progress = @ + write_speed] IN
              IF t.image_progress >= image_size THEN complete_imaging(t) ELSE t
         ELSE s

\* everything but scrt
scrt_frame == << obc, power, adcs, comms, payload, datastore, cdh, tc_thread, net_out,
               tm_packet, packets_built, pkt, wire, decoded, call, n_cmds, n_ticks, drawn,
               handled, rt, sim, orbit, playback, obcsys, pbsim, last_logs >>

\* Simulator.update on the telemetry path: obc.update collects a packet
\* (telemetry_rate is 1 Hz, so every one-second tick does), then
\* comms.update sends what the bitrate allows; sendto succeeds or raises
\* socket.error
TmUpdate(len, send_ok) ==
    /\ scrt.obc_state = "OFF" \/ scrt.tm_sequence_count < MaxTmPackets
    /\ scrt' = [comms_tm_update(collect_telemetry(scrt, len), send_ok) EXCEPT !.op = "update"]
    /\ UNCHANGED scrt_frame

\* CommunicationsSubsystem.process_command('SET_TM_BITRATE', {'bitrate': b})
TmSetBitrate(b) ==
    /\ scrt' = [scrt EXCEPT !.op = "set_tm_bitrate",
                        !.tm_bitrate = IF b > 0 THEN b ELSE @,
                        !.returned = (b > 0)]
    /\ UNCHANGED scrt_frame

\* CommunicationsSubsystem.process_command('SET_MODE', {'mode': mode})
TmCommsSetMode(mode) ==
    /\ scrt' = [scrt EXCEPT !.op = "comms_set_mode", !.comms_mode = mode, !.returned = TRUE]
    /\ UNCHANGED scrt_frame

\* OBCSubsystem.process_command('SET_STATE', {'state': state})
TmObcSetState(state) ==
    /\ scrt' = [scrt EXCEPT !.op = "obc_set_state", !.obc_state = state, !.returned = TRUE]
    /\ UNCHANGED scrt_frame

\* PayloadSubsystem.process_command(command, {'state': value})
PayProcessCommand(command, value) ==
    /\ scrt' = [PAYLOAD_rt_process_command(scrt, command, value) EXCEPT !.op = command]
    /\ UNCHANGED scrt_frame

\* PayloadSubsystem.update
PayUpdate ==
    /\ scrt' = [PAYLOAD_rt_update(scrt) EXCEPT !.op = "payload_update"]
    /\ UNCHANGED scrt_frame

\* DatastoreSubsystem.process_command(command, {})
DsProcessCommand(command) ==
    /\ scrt' = [DATASTORE_rt_process_command(scrt, command) EXCEPT !.op = command]
    /\ UNCHANGED scrt_frame

\* DatastoreSubsystem.store_file(filename, size_mb, metadata)
DsStoreFile(size_mb) ==
    /\ scrt' = [store_file(scrt, size_mb) EXCEPT !.op = "store_file"]
    /\ UNCHANGED scrt_frame

\* what the payload is commanded, what the datastore is commanded, and
\* the sizes of the files stored directly
PayCommands == { << "CAPTURE", "" >>, << "SET_STATE", "OFF" >>, << "SET_STATE", "IDLE" >>,
                 << "START", "" >> }
DsCommands == { "CLEAR_DATASTORE", "DELETE_LAST_FILE" }
FileSizes == { 6, 500, 2000 }

\* lengths of telemetry packets, bitrates commanded, and the modes in which
\* COMMS transmits
TmPacketLens == { 200, 1500 }
TmBitrates == { 0, 1, 8000, downlink_rate }
TmModes == { "TX", "TXRX" }

----------------------------------------------------------------------------
(* The playback sender (src/simulator.py) fed with packets as              *)
(* CCSDSPacket.to_bytes writes them                                        *)

\* file: the test data; written: the packets it was made of; pos: the read
\* position of send_tm; sent: the datagrams send_tm has sent
PLAYBACK_init == [file |-> << >>, written |-> << >>, pos |-> 0, sent |-> << >>]

\* bytearray(n) filled by readinto from position pos: what the file still
\* holds, then zeros
readinto(file, pos, n) ==
    [i \in 1..n |-> IF pos + i <= Len(file) THEN file[pos + i] ELSE 0]

\* p.to_bytes() is appended to the test data file
PlaybackWrite(p) ==
    /\ playback.pos = 0
    /\ playback' = [playback EXCEPT !.file = @ \o to_bytes(p),
                                    !.written = Append(@, to_bytes(p))]
    /\ NextCall("CCSDSPacket.to_bytes", -1, << >>)
    /\ UNCHANGED << pbsim, scrt, obcsys, rt, sim, orbit, drawn, pkt, wire, decoded, obc, power, adcs, comms,
                    payload, datastore, cdh, tc_thread, net_out, tm_packet, packets_built,
                    n_cmds, n_ticks, handled, last_logs >>

\* one pass of the loop of send_tm: a 6-byte header is read, the packet is
\* taken as length field + 7 bytes from the start of that header and sent
PlaybackSendTm ==
    /\ playback.file # << >>
    /\ Len(playback.file) - playback.pos >= 6
    /\ LET header == readinto(playback.file, playback.pos, 6)
           len == FromBE(SubSeq(header, 5, 6))
           packet == readinto(playback.file, playback.pos, len + 7)
           left == Len(playback.file) - playback.pos
       IN  /\ playback' = [playback EXCEPT !.sent = Append(@, packet),
                                           !.pos = @ + (IF len + 7 < left THEN len + 7 ELSE left)]
           /\ NextCall("send_tm", len, packet)
    /\ net_out' = net_out + 1
    /\ UNCHANGED << pbsim, scrt, obcsys, rt, sim, orbit, drawn, pkt, wire, decoded, obc, power, adcs, comms,
                    payload, datastore, cdh, tc_thread, tm_packet, packets_built,
                    n_cmds, n_ticks, handled, last_logs >>

\* what the steps of simulator_runtime leave alone
apps_vars == << obc, power, adcs, comms, payload, datastore, cdh, tc_thread, net_out,
                tm_packet, packets_built, pkt, wire, decoded, call, n_cmds, n_ticks, drawn,
                handled, sim, orbit, playback, scrt, obcsys, pbsim, last_logs >>

\* a datagram reaches the receive buffer of the TC socket
RtArrive(d) ==
    /\ rt' = [rt EXCEPT !.op = "arrive", !.socket = Append(@, d), !.n_arrived = @ + 1]
    /\ UNCHANGED apps_vars

\* CommunicationsSubsystem.process_command('SET_MODE', {'mode': mode})
RtCommsSetMode(mode) ==
    /\ rt' = [rt EXCEPT !.op = "comms_set_mode", !.comms_mode = mode]
    /\ UNCHANGED apps_vars

\* one pass of the loop of CommunicationsSubsystem._tc_listener in which
\* recvfrom returns a datagram.  json.loads(data.decode()) is handed the
\* whole datagram, header included, and command_queue is no attribute of
\* the object: the pass ends in one of the except branches with nothing
\* queued
RtListenerReceive ==
    /\ rt.state["COMMS"] # "OFF"
    /\ rt.comms_mode \in { "RX", "TXRX" }
    /\ rt.socket # << >>
    /\ rt' = [recvfrom(rt).st EXCEPT !.op = "listener"]
    /\ UNCHANGED apps_vars

\* Simulator.update: obc.update, then comms.update
RtUpdate ==
    /\ rt' = [comms_update(obc_update(rt)) EXCEPT !.op = "update"]
    /\ UNCHANGED apps_vars

\* CDHModule.create_tm_packet
CreateTmPacket ==
    /\ LET r == create_tm_packet(cdh) IN
       /\ cdh' = r.cdh
       /\ tm_packet' = r.packet
    /\ packets_built' = packets_built + 1
    /\ NextCall("CDHModule.create_tm_packet", -1, << >>)
    /\ last_logs' = << >>
    /\ UNCHANGED << pbsim, scrt, obcsys, rt, sim, orbit, playback, drawn, pkt, wire, decoded, obc, power, adcs, comms, payload, datastore, tc_thread, net_out,
                    n_cmds, n_ticks, handled >>

\* packet = CCSDSPacket() followed by the caller's assignments to its fields
NewPacket(v, t, f, a, sf, sc, pl) ==
    /\ pkt' = [CCSDSPacket_init EXCEPT !.version = v, !.packet_type = t,
                    !.sec_header_flag = f, !.apid = a, !.sequence_flags = sf,
                    !.sequence_count = sc, !.payload = pl]
    /\ wire' = << >>
    /\ decoded' = NoneVal
    /\ NextCall("CCSDSPacket", -1, << >>)
    /\ UNCHANGED << pbsim, scrt, obcsys, rt, sim, orbit, playback, drawn, obc, power, adcs, comms, payload, datastore, cdh, tc_thread,
                    net_out, tm_packet, packets_built, n_cmds, n_ticks, handled,
                    last_logs >>

\* wire = pkt.to_bytes()
ToBytes ==
    /\ wire = << >>
    /\ wire' = to_bytes(pkt)
    /\ NextCall("CCSDSPacket.to_bytes", -1, << >>)
    /\ UNCHANGED << pbsim, scrt, obcsys, rt, sim, orbit, playback, drawn, pkt, decoded, obc, power, adcs, comms, payload, datastore, cdh,
                    tc_thread, net_out, tm_packet, packets_built, n_cmds, n_ticks,
                    handled, last_logs >>

\* decoded = CCSDSPacket.from_bytes(wire)
FromBytes ==
    /\ wire # << >>
    /\ decoded = NoneVal
    /\ decoded' = from_bytes(wire)
    /\ NextCall("CCSDSPacket.from_bytes", -1, wire)
    /\ UNCHANGED << pbsim, scrt, obcsys, rt, sim, orbit, playback, drawn, pkt, wire, obc, power, adcs, comms, payload, datastore, cdh,
                    tc_thread, net_out, tm_packet, packets_built, n_cmds, n_ticks,
                    handled, last_logs >>

----------------------------------------------------------------------------
(* Specifications                                                          *)

Init ==
    /\ obc = OBC_init
    /\ power = POWER_init
    /\ adcs = ADCS_init
    /\ comms = COMMS_init
    /\ payload = PAYLOAD_init
    /\ datastore = DATASTORE_init
    /\ cdh = CDH_init
    /\ tc_thread = "not_started"
    /\ net_out = 0
    /\ tm_packet = << >>
    /\ packets_built = 0
    /\ pkt = CCSDSPacket_init
    /\ wire = << >>
    /\ decoded = NoneVal
    /\ call = [op |-> "init", seq |-> 0, id |-> -1, data |-> << >>]
    /\ n_cmds = 0
    /\ n_ticks = 0
    /\ drawn = NoDraw("none")
    /\ rt = RT_init
    /\ sim = SIM_init
    /\ orbit = ORBIT_init
    /\ playback = PLAYBACK_init
    /\ scrt = SC_init
    /\ obcsys = OBCSYS_init
    /\ pbsim = PBSIM_init
    /\ handled = [sub |-> "none", seq |-> 0, id |-> -1, data |-> << >>]
    /\ last_logs = << >>

\* the telecommand path: the listener, CDH and the subsystem handlers
Next ==
    /\ call.seq < MaxCalls
    /\ \/ CommsStart
       \/ CommsStop
       \/ \E d \in Datagrams : TcListenerReceive(d)
       \/ TcListenerSocketError
       \/ \E d \in Payloads : CDHProcessCommand(d)
       \/ \E i \in HandlerIds(10), d \in Payloads : OBCProcessCommand(i, d)
       \/ \E i \in HandlerIds(20), d \in Payloads : POWERProcessCommand(i, d)
       \/ \E i \in HandlerIds(30), d \in Payloads : ADCSProcessCommand(i, d)
       \/ \E i \in HandlerIds(40), d \in Payloads : COMMSProcessCommand(i, d)
       \/ \E i \in HandlerIds(50), d \in Payloads : PAYLOADProcessCommand(i, d)
       \/ \E i \in HandlerIds(60), d \in Payloads : DATASTOREProcessCommand(i, d)

Spec == Init /\ [][Next]_vars

\* the telemetry framer alone, run past the wrap of the sequence count
NextCDH == packets_built < MaxPackets /\ CreateTmPacket

SpecCDH == Init /\ [][NextCDH]_vars

\* the ADCS under commands and ticks of a clock that does not run backwards
NextADCS ==
    \/ n_cmds < MaxCmds /\ \E c \in AdcsCommands : ADCSProcessCommand(c[1], c[2])
    \/ n_ticks < MaxTicks /\ \E t \in { adcs.last_update_time, adcs.last_update_time + 1 } :
                                \E e \in Draws(adcs) : ADCSUpdate(t, e)

SpecADCS == Init /\ [][NextADCS]_vars

\* the attitude under SET_MODE, SET_QUATERNION and ticks
NextAtt ==
    \/ n_cmds < MaxAttCmds /\ \E c \in AttCommands : ADCSProcessCommand(c[1], c[2])
    \/ n_ticks < MaxAttTicks /\ \E t \in { adcs.last_update_time, adcs.last_update_time + 1 } :
                                   \E e \in AttDraws(adcs) : ADCSUpdate(t, e)

SpecAtt == Init /\ [][NextAtt]_vars

\* Scenario B: SET_MODE NADIR, then one tick per second
NextSlew ==
    \/ n_cmds = 0 /\ ADCSProcessCommand(33, << 3 >>)
    \/ n_cmds = 1 /\ n_ticks < MaxSlewTicks
                  /\ \E e \in SlewDraws(adcs) : ADCSUpdate(adcs.last_update_time + 1, e)

SpecSlew == Init /\ [][NextSlew]_vars

\* the telecommand path of simulator_runtime
NextRT ==
    \/ rt.n_arrived < MaxDatagrams /\ \E d \in RtDatagrams : RtArrive(d)
    \/ \E m \in RtCommsModes : RtCommsSetMode(m)
    \/ RtListenerReceive
    \/ RtUpdate

SpecRT == Init /\ [][NextRT]_vars

\* the telecommand path as Simulator.run drives it from the constructed
\* state: datagrams arrive and Simulator.update is called time after time,
\* nothing else calls a subsystem
NextRTLive ==
    \/ rt.n_arrived < MaxDatagrams /\ \E d \in RtDatagrams : RtArrive(d)
    \/ RtUpdate

SpecRTLive == Init /\ [][NextRTLive]_vars /\ WF_vars(RtUpdate)

\* the OBC mode under registrations, commands, state changes and updates
NextObcMode ==
    \/ \E t \in ObcSubsystems : ObcRegister(t)
    \/ \E st \in { "OFF", "ACTIVE" } : ObcSetState(st)
    \/ \E t \in ObcSubsystems, st \in { "OFF", "IDLE" } : ObcSubSetState(t, st)
    \/ \E m \in OBCModes \cup { "SURVIVAL" } : ObcSetMode(m)
    \/ ObcReset
    \/ ObcUpdate

SpecObcMode == Init /\ [][NextObcMode]_vars

\* the playback Simulator: the TM sender thread, the TC receiver thread
\* and the status loop of the main thread, one statement at a time
NextStatus ==
    \/ \E n \in 0..MaxPasses : PbStart(n)
    \/ PbTmInit
    \/ PbTmSend
    \/ PbTmCount
    \/ Len(pbsim.received) < MaxTcDatagrams /\ \E d \in PbDatagrams : PbTcRecv(d)
    \/ PbTcStore
    \/ PbTcCount
    \/ PbStatusTest
    \/ PbStatusHexlify
    \/ PbStatusReadTm
    \/ PbStatusReturn

SpecStatus == Init /\ [][NextStatus]_vars

\* the payload and its datastore under commands and ticks
NextPayload ==
    \/ \E c \in PayCommands : PayProcessCommand(c[1], c[2])
    \/ PayUpdate
    \/ \E c \in DsCommands : DsProcessCommand(c)

SpecPayload == Init /\ [][NextPayload]_vars

\* the datastore under store_file and its commands
NextStore ==
    \/ \E size_mb \in FileSizes : DsStoreFile(size_mb)
    \/ \E c \in DsCommands \cup { "FORMAT" } : DsProcessCommand(c)

SpecStore == Init /\ [][NextStore]_vars

\* the telemetry path with COMMS on and, once commanded, transmitting.
\* The OBC builds at most MaxTmPackets packets and is switched off at some
\* point; Simulator.run keeps calling update after that
NextDownlink ==
    \/ \E len \in TmPacketLens, send_ok \in BOOLEAN : TmUpdate(len, send_ok)
    \/ \E b \in TmBitrates : TmSetBitrate(b)
    \/ \E m \in TmModes : TmCommsSetMode(m)
    \/ TmObcSetState("OFF")

SpecDownlink == Init /\ [][NextDownlink]_vars
                    /\ WF_vars(\E len \in TmPacketLens, send_ok \in BOOLEAN : TmUpdate(len, send_ok))
                    /\ WF_vars(TmObcSetState("OFF"))


\* the same with telemetry packets built in between
NextTM ==
    \/ NextADCS
    \/ packets_built < MaxTm /\ CreateTmPacket

SpecTM == Init /\ [][NextTM]_vars

\* the packet codec: one packet built, encoded and decoded again
NextCodec ==
    \/ call.seq = 0 /\ \E v \in PacketVersions, t \in PacketTypes, f \in PacketFlags,
                          a \in PacketApids, sf \in PacketSeqFlags, sc \in PacketSeqCounts,
                          pl \in PacketPayloads : NewPacket(v, t, f, a, sf, sc, pl)
    \/ call.seq = 1 /\ ToBytes
    \/ call.seq = 2 /\ FromBytes

SpecCodec == Init /\ [][NextCodec]_vars


\* the Simulator with its transport: the main loop, the listener thread
\* and telemetry sends
NextSim ==
    /\ call.seq < MaxSimCalls
    /\ \/ SimStart
       \/ \E i \in BOOLEAN : SimTick(i)
       \/ SimLoopExit
       \/ SimStop
       \/ \E d \in Datagrams : TcListenerReceive(d)
       \/ TcListenerSocketError
       \/ \E p \in SendPackets, ok \in BOOLEAN : CommsSendTmPacket(p, ok)

SpecSim == Init /\ [][NextSim]_vars

\* the orbit propagator queried at times that repeat, advance and go back
NextOrbit == call.seq < MaxOrbitCalls /\ \E t \in OrbitTimes : OrbitPropagate(t)

SpecOrbit == Init /\ [][NextOrbit]_vars

\* a test data file of packets written by to_bytes, then played back
NextPlayback ==
    \/ Len(playback.written) < MaxStreamPackets /\ \E p \in StreamPackets : PlaybackWrite(p)
    \/ PlaybackSendTm

SpecPlayback == Init /\ [][NextPlayback]_vars

\* one SET_MODE to a pointing mode, then the ticks of the main loop, which
\* calls update once per time step for as long as it runs
LiveSetMode == n_cmds = 0 /\ \E mode \in 1..MaxMode : ADCSProcessCommand(33, << mode >>)

LiveTick ==
    /\ n_cmds = 1
    /\ n_ticks < MaxLiveTicks
    /\ \E e \in LiveDraws(adcs) : ADCSUpdate(adcs.last_update_time + 1, e)

NextLive == LiveSetMode \/ LiveTick

SpecLive == Init /\ [][NextLive]_vars /\ WF_vars(LiveTick)

----------------------------------------------------------------------------
(* Properties                                                              *)

\* a step of the program, as opposed to a stuttering step
Stepped == call'.seq = call.seq + 1

\* the subsystem a command ID is to be routed to
SubsystemOfDecade(id) ==
    IF id \in 10..19 THEN "OBC"
    ELSE IF id \in 20..29 THEN "POWER"
    ELSE IF id \in 30..39 THEN "ADCS"
    ELSE IF id \in 40..49 THEN "COMMS"
    ELSE IF id \in 50..59 THEN "PAYLOAD"
    ELSE IF id \in 60..69 THEN "DATASTORE"
    ELSE "none"

\* C1: whenever CDH process_command has been called with a command ID in
\* 10..69 and a payload, the handler of the subsystem of the ID's decade has
\* received exactly that ID and payload in the same operation.
C1_DispatchByDecade ==
    (call.op = "CDHModule.process_command" /\ call.id \in 10..69)
        => /\ handled.seq = call.seq
           /\ handled.sub = SubsystemOfDecade(call.id)
           /\ handled.id = call.id
           /\ handled.data = call.data

\* C1: the listener has passed SET_MODE 3 (ID 33, payload 03) to CDH
C1_Witness ==
    /\ call.op = "CDHModule.process_command"
    /\ call.id = 33
    /\ call.data = << 3 >>

\* C2: a command whose ID lies outside 10..69 is logged and dropped: the call
\* of CDH process_command returns and the listener goes on as before, no
\* subsystem's state and not the CDH sequence counter changes (COMMS apart
\* from its count of datagrams received), and nothing is sent back.
C2_OutOfRangeDropped ==
    [][ (Stepped /\ call'.op = "CDHModule.process_command"
                 /\ call'.id # -1 /\ call'.id \notin 10..69)
            => /\ obc' = obc /\ power' = power /\ adcs' = adcs
               /\ payload' = payload /\ datastore' = datastore
               /\ [comms' EXCEPT !.packets_received = comms.packets_received] = comms
               /\ cdh' = cdh
               /\ net_out' = net_out
               /\ tc_thread' = tc_thread ]_vars

\* C2: the listener has passed a command with ID 85 to CDH
C2_Witness ==
    /\ call.op = "CDHModule.process_command"
    /\ call.id = 85

\* the sequence word of the telemetry packet built last
TmSecondWord == FromBE(Slice(tm_packet, 2, 4))
\* the length word of the telemetry packet built last
TmLengthWord == FromBE(Slice(tm_packet, 4, 6))

\* C3: the n-th telemetry packet built (counting from 0) carries sequence
\* flags 3 and sequence count n mod 16384 in its second header word.
C3_WireSequenceCount ==
    packets_built > 0
        => /\ Shr(TmSecondWord, 14) = 3
           /\ TmSecondWord % 16384 = (packets_built - 1) % 16384

\* C3: packet number 16384 has been built and carries count 0 again
C3_Witness ==
    /\ packets_built = 16385
    /\ TmSecondWord % 16384 = 0

\* C4 as stated: the stored sequence counter is in [0, 16383] in every
\* reachable state.
C4_StoredCounterIn14Bits == cdh.sequence_count \in 0..16383

\* C4: the stored sequence counter is the number of packets built so far:
\* it grows by one with every packet and is never wrapped or reset.
C4_StoredCounterCountsPackets == cdh.sequence_count = packets_built

\* C4: the packet carrying count 16383 has been built and the stored counter
\* is 16384
C4_Witness ==
    /\ packets_built = 16384
    /\ TmSecondWord % 16384 = 16383
    /\ cdh.sequence_count = 16384

\* C5: in every packet create_tm_packet returns, the length word is the
\* number of bytes after the 6-byte primary header minus one, and the packet
\* is length word + 7 bytes long.
C5_LengthField ==
    packets_built > 0
        => /\ TmLengthWord = Len(SliceFrom(tm_packet, 6)) - 1
           /\ Len(tm_packet) = TmLengthWord + 7

\* C5: a packet has been built: 152 bytes of data behind the header
C5_Witness ==
    /\ packets_built = 1
    /\ TmLengthWord = 151
    /\ Len(tm_packet) = 158

\* the header fields of scenario C: version 0, type 0, secondary-header flag
\* 1, APID 100, sequence flags 3, sequence count 5
ScenarioC(p) ==
    /\ p.version = 0 /\ p.packet_type = 0 /\ p.sec_header_flag = 1
    /\ p.apid = 100 /\ p.sequence_flags = 3 /\ p.sequence_count = 5

\* C6 as stated: the fields of scenario C encode to first word 0x0464 and
\* second word 0xC005.
C6_ScenarioC_0464 ==
    (ScenarioC(pkt) /\ wire # << >>)
        => /\ FromBE(Slice(wire, 0, 2)) = 1124
           /\ FromBE(Slice(wire, 2, 4)) = 49157

\* C6: the fields of scenario C encode to first word 0x0864 (the
\* secondary-header flag is bit 11) and second word 0xC005.
C6_ScenarioC_0864 ==
    (ScenarioC(pkt) /\ wire # << >>)
        => /\ FromBE(Slice(wire, 0, 2)) = 2148
           /\ FromBE(Slice(wire, 2, 4)) = 49157

\* C6: a packet with the fields of scenario C has been encoded
C6_Witness == ScenarioC(pkt) /\ wire # << >>

\* every header field within the width the layout gives it
FieldsInRange(p) ==
    /\ p.version \in 0..7 /\ p.packet_type \in 0..1 /\ p.sec_header_flag \in 0..1
    /\ p.apid \in 0..2047 /\ p.sequence_flags \in 0..3 /\ p.sequence_count \in 0..16383

\* C7: for a packet whose header fields are within their ranges,
\* from_bytes(to_bytes()) gives back the same version, type,
\* secondary-header flag, APID, sequence flags, sequence count and payload.
C7_RoundTrip ==
    (decoded # NoneVal /\ FieldsInRange(pkt))
        => /\ decoded.version = pkt.version
           /\ decoded.packet_type = pkt.packet_type
           /\ decoded.sec_header_flag = pkt.sec_header_flag
           /\ decoded.apid = pkt.apid
           /\ decoded.sequence_flags = pkt.sequence_flags
           /\ decoded.sequence_count = pkt.sequence_count
           /\ decoded.payload = pkt.payload

\* C7: a packet with every field at the top of its range and a payload has
\* gone through to_bytes and from_bytes
C7_Witness ==
    /\ decoded # NoneVal
    /\ pkt.version = 7 /\ pkt.packet_type = 1 /\ pkt.sec_header_flag = 1
    /\ pkt.apid = 2047 /\ pkt.sequence_flags = 3 /\ pkt.sequence_count = 16383
    /\ pkt.payload = << 1, 2, 255 >>

\* the ADCS record within the data section of the telemetry packet built
\* last: 50 bytes from the first ADCS field on
AdcsFirstField == 23
TmAdcsSegment ==
    LET at == calcsize(TmFields, AdcsFirstField - 1)
    IN  Slice(SliceFrom(tm_packet, 6), at, at + 50)

\* C8: the ADCS segment of a telemetry packet carries the mode and the
\* status the ADCS module has when the packet is built.
C8_AdcsSegmentCurrent ==
    call.op = "CDHModule.create_tm_packet"
        => /\ TmAdcsSegment[8] = adcs.mode
           /\ TmAdcsSegment[9] = adcs.status

\* C8: a packet has been built while the ADCS is in mode 3 (NADIR), slewing
C8_Witness ==
    /\ call.op = "CDHModule.create_tm_packet"
    /\ adcs.mode = 3
    /\ adcs.status = 1

\* a step that is SET_MODE (ID 33) with a one-byte payload
SetModeStep ==
    /\ Stepped
    /\ call'.op = "ADCSModule.process_command"
    /\ call'.id = 33
    /\ Len(call'.data) = 1

\* C9: SET_MODE with a mode in 0..4 sets the mode, makes the status SLEWING
\* (1) and leaves no cached lock-target quaternion behind.
C9_SetModeInvalidatesLock ==
    [][ (SetModeStep /\ call'.data[1] \in 0..4)
            => /\ adcs'.mode = call'.data[1]
               /\ adcs'.status = 1
               /\ adcs'.lock_quaternion = NoneVal ]_vars

\* C9: SET_MODE 3 has been accepted while a lock target cached in an
\* earlier mode is still stored
C9_Witness ==
    /\ call.op = "ADCSModule.process_command"
    /\ call.id = 33
    /\ call.data = << 3 >>
    /\ adcs.mode = 3
    /\ adcs.lock_quaternion # NoneVal

\* C10: SET_MODE with a mode greater than 4 changes no field of the ADCS
\* and writes an error to the log.
C10_InvalidModeIgnored ==
    [][ (SetModeStep /\ call'.data[1] > 4)
            => /\ adcs' = adcs
               /\ \E i \in 1..Len(last_logs') : last_logs'[i][1] = "error" ]_vars

\* C10: SET_MODE 5 has been sent to an ADCS that is in mode 3 and slewing
C10_Witness ==
    /\ call.op = "ADCSModule.process_command"
    /\ call.id = 33
    /\ call.data = << 5 >>
    /\ adcs.mode = 3
    /\ adcs.status = 1

\* a step that is SET_QUATERNION (ID 34) with a 16-byte payload
SetQuaternionStep ==
    /\ Stepped
    /\ call'.op = "ADCSModule.process_command"
    /\ call'.id = 34
    /\ Len(call'.data) = 16

\* C11: SET_QUATERNION with four big-endian float32 stores exactly those
\* four values as the attitude quaternion and changes nothing else; the
\* payload (0, 0, 0, 1) gives [0, 0, 0, 1] and (2, 0, 0, 0), which is not of
\* unit norm, is stored as [2, 0, 0, 0].
C11_SetQuaternionStoredAsSent ==
    [][ SetQuaternionStep
            => /\ adcs' = [adcs EXCEPT !.quaternion =
                              [f32s |-> [i \in 1..4 |->
                                  FloatV(FromBE(SubSeq(call'.data, 4 * i - 3, 4 * i)))]]]
               /\ call'.data = QuaternionPayload
                      => components(adcs'.quaternion) = << 0, 0, 0, 1000 >>
               /\ call'.data = NonUnitPayload
                      => components(adcs'.quaternion) = << 2000, 0, 0, 0 >> ]_vars

\* C11: the quaternion (2, 0, 0, 0) has been commanded and is the attitude
C11_Witness ==
    /\ call.op = "ADCSModule.process_command"
    /\ call.id = 34
    /\ call.data = NonUnitPayload
    /\ components(adcs.quaternion) = << 2000, 0, 0, 0 >>

\* a stored quaternion whose norm is 1 to within 1e-6: |x^2+y^2+z^2+w^2 - 1|
\* is at most 2e-6.  The result of _euler_to_quaternion is divided by its
\* norm; a NaN quaternion has no norm
IsUnitNorm(q) ==
    IF "rpy" \in DOMAIN q THEN q.rpy # NaNAngles
    ELSE IF "nan" \in DOMAIN q THEN FALSE
    ELSE LET c == components(q)
             sumsq == c[1] * c[1] + c[2] * c[2] + c[3] * c[3] + c[4] * c[4]
         IN  Abs(sumsq - 1000000) <= 2

\* C12: after every call to ADCSModule.update, whatever SET_MODE and
\* SET_QUATERNION commands and ticks came before, the attitude quaternion
\* has unit norm within 1e-6.
C12_UnitNormAfterUpdate ==
    call.op = "ADCSModule.update" => IsUnitNorm(adcs.quaternion)

\* C12: the zero quaternion was commanded and an update at a later time has
\* run its attitude step on it: every component is NaN
C12_Witness ==
    /\ call.op = "ADCSModule.update"
    /\ call.id > mission_start_time
    /\ n_cmds = 1
    /\ drawn.fail = "none"
    /\ adcs.last_update_time = call.id
    /\ adcs.quaternion = NaNQuaternion

\* a step that is an update in which a computation raises
FailedUpdateStep ==
    /\ Stepped
    /\ call'.op = "ADCSModule.update"
    /\ drawn'.fail \in { "orbit", "environment", "attitude" }

\* C13: when the orbit propagation, the environment model or the attitude
\* step raises during update, the call still returns, with status 0
\* (UNCONTROLLED); the tick is counted once and is not run again within the
\* call: the attitude is as before, one error is logged, and the time of
\* the last update moves only if the failure was inside the attitude step.
C13_UpdateErrorsCaught ==
    [][ FailedUpdateStep
            => /\ adcs'.status = 0
               /\ n_ticks' = n_ticks + 1
               /\ adcs'.quaternion = adcs.quaternion
               /\ adcs'.angular_velocity = adcs.angular_velocity
               /\ last_logs' = << Log("error", "update") >>
               /\ adcs'.last_update_time =
                      IF drawn'.fail = "attitude" THEN call'.id ELSE adcs.last_update_time ]_vars

\* C13: the first update after SET_MODE 3 failed in the environment model
\* and left the slewing ADCS uncontrolled
C13_Witness ==
    /\ call.op = "ADCSModule.update"
    /\ drawn.fail = "environment"
    /\ n_ticks = 1
    /\ adcs.mode = 3
    /\ adcs.status = 0
    /\ adcs.last_update_time = mission_start_time

\* the per-axis errors at the start of the tick being taken: the desired
\* attitude of the tick minus the attitude before it, in Euler angles
ErrorsBefore == [i \in 1..3 |-> drawn'.target[i] - quaternion_to_euler(adcs.quaternion)[i]]

\* a tick of a slewing NADIR ADCS that runs its attitude step
SlewingNadirTick ==
    /\ Stepped
    /\ call'.op = "ADCSModule.update"
    /\ drawn'.fail = "none"
    /\ adcs.mode = 3
    /\ adcs.status = 1
    /\ quaternion_to_euler(adcs.quaternion) # NaNAngles

\* C14 as stated: a tick of the slewing NADIR ADCS makes the status
\* POINTING_ACHIEVED (2) exactly when every per-axis error is below 4
\* degrees, and never while an axis error is 4 degrees or more.
C14_AchievedBelow4 ==
    [][ SlewingNadirTick
            => (adcs'.status = 2 <=> \A i \in 1..3 : Abs(ErrorsBefore[i]) < 4000) ]_vars

\* C14: a tick of the slewing NADIR ADCS makes the status POINTING_ACHIEVED
\* exactly when no per-axis error at the start of the tick exceeds 4
\* degrees (an error of exactly 4 degrees counts as achieved), and leaves it
\* SLEWING (1) otherwise.
C14_AchievedAtMost4 ==
    [][ SlewingNadirTick
            => /\ adcs'.status \in { 1, 2 }
               /\ adcs'.status = 2 <=> \A i \in 1..3 : Abs(ErrorsBefore[i]) <= 4000 ]_vars

\* C14: the slew of 90 degrees has been achieved on the tick that found the
\* roll error at exactly 4 degrees
C14_Witness ==
    /\ call.op = "ADCSModule.update"
    /\ adcs.mode = 3
    /\ adcs.status = 2
    /\ n_ticks = 44
    /\ drawn.target = << 0, 0, 0 >>
    /\ quaternion_to_euler(adcs.quaternion) = << 2000, 0, 0 >>

\* a tick in a tracking mode (SUNPOINTING 2, NADIR 3, DOWNLOAD 4) that runs
\* its attitude step on an attitude that is a rotation
TrackingTick ==
    /\ Stepped
    /\ call'.op = "ADCSModule.update"
    /\ drawn'.fail = "none"
    /\ adcs'.last_update_time = call'.id
    /\ adcs.last_update_time # call'.id
    /\ adcs.mode \in 2..4
    /\ quaternion_to_euler(adcs.quaternion) # NaNAngles

\* C15: on every tick in a tracking mode, if some per-axis error between
\* the desired attitude of the mode and the current attitude exceeds twice
\* the accuracy threshold, the status is SLEWING (1) after the tick, also
\* when it was POINTING_ACHIEVED (2) before.
C15_SlewingWhenOffTarget ==
    [][ (TrackingTick /\ \E i \in 1..3 : Abs(ErrorsBefore[i]) > 2 * pointing_accuracy)
            => adcs'.status = 1 ]_vars

\* C15: NADIR pointing was achieved on the first tick, the second tick found
\* the target a quarter turn away and the status is still POINTING_ACHIEVED
C15_Witness ==
    /\ call.op = "ADCSModule.update"
    /\ n_cmds = 1
    /\ n_ticks = 2
    /\ drawn.fail = "none"
    /\ drawn.target = << 0, 0, 0 >>
    /\ adcs.mode = 3
    /\ adcs.status = 2
    /\ adcs.last_update_time = mission_start_time + 2
    /\ quaternion_to_euler(adcs.quaternion)[1] > 80000

\* the attitude after the tick being taken, in Euler angles
EulerAfter == quaternion_to_euler(adcs'.quaternion)

\* C16: on every tick of a tracking mode that starts with status
\* POINTING_ACHIEVED (2), the attitude after the tick is within 0.1 degree
\* per Euler axis of the desired attitude the mode has on that tick.
C16_HoldsDesiredAttitude ==
    [][ (TrackingTick /\ adcs.status = 2)
            => \A i \in 1..3 : Abs(EulerAfter[i] - drawn'.target[i]) <= 100 ]_vars

\* C16: a tick that started with NADIR pointing achieved has held the
\* attitude it found, more than 0.1 degree in roll from the NADIR target
C16_Witness ==
    /\ call.op = "ADCSModule.update"
    /\ drawn.fail = "none"
    /\ adcs.mode = 3
    /\ adcs.status = 2
    /\ adcs.lock_quaternion # NoneVal
    /\ adcs.last_update_time = call.id
    /\ adcs.angular_velocity = drawn.rand_error
    /\ Abs(quaternion_to_euler(adcs.quaternion)[1] - drawn.target[1]) > 100

\* LOCK was entered by the only command so far and has run a tick: the
\* cached lock_quaternion is the attitude LOCK was entered with
InLockSinceEntry ==
    /\ n_cmds = 1
    /\ adcs.mode = 1
    /\ adcs.lock_quaternion # NoneVal
    /\ quaternion_to_euler(adcs.lock_quaternion) # NaNAngles

\* C17: in LOCK, with no command since the mode was entered, the attitude
\* stays within 0.1 degree per Euler axis of the attitude cached at mode
\* entry after any number of ticks: the jitter does not accumulate.
C17_LockHoldsEntryAttitude ==
    InLockSinceEntry
        => \A i \in 1..3 : Abs(quaternion_to_euler(adcs.quaternion)[i]
                                 - quaternion_to_euler(adcs.lock_quaternion)[i]) <= 100

\* C17: two LOCK ticks after mode entry the roll is 0.18 degree from the
\* attitude cached at entry
C17_Witness ==
    /\ InLockSinceEntry
    /\ call.op = "ADCSModule.update"
    /\ n_ticks = 2
    /\ quaternion_to_euler(adcs.quaternion)[1]
           - quaternion_to_euler(adcs.lock_quaternion)[1] = 180

\* the per-axis errors after the tick being taken, against the same target
ErrorsAfter == [i \in 1..3 |-> drawn'.target[i] - EulerAfter[i]]

\* the largest per-axis error
MaxAbs(errors) ==
    LET a == Abs(errors[1])  b == Abs(errors[2])  c == Abs(errors[3])
    IN  IF a >= b /\ a >= c THEN a ELSE IF b >= c THEN b ELSE c

\* C18: on every tick of the slew of Scenario B that leaves the status
\* SLEWING, the pointing error is strictly smaller after the tick than
\* before it, and no axis error has grown or changed sign.
C18_ErrorsShrinkWhileSlewing ==
    [][ (SlewingNadirTick /\ adcs'.status = 1)
            => /\ MaxAbs(ErrorsAfter) < MaxAbs(ErrorsBefore)
               /\ \A i \in 1..3 : /\ Abs(ErrorsAfter[i]) <= Abs(ErrorsBefore[i])
                                    /\ Sign(ErrorsAfter[i]) * Sign(ErrorsBefore[i]) >= 0 ]_vars

\* C18: the first tick of the slew has taken the pitch from 1 degree short
\* of the target to 1 degree past it while the roll is still slewing
C18_Witness ==
    /\ call.op = "ADCSModule.update"
    /\ n_ticks = 1
    /\ adcs.mode = 3
    /\ adcs.status = 1
    /\ drawn.target = << 0, 1000, 0 >>
    /\ drawn.rate_noise = << 0, 0, 0 >>
    /\ quaternion_to_euler(adcs.quaternion) = << 88000, 2000, 0 >>

\* a step of the listener (transport) thread: one datagram received
ListenerStep == \E d \in Datagrams : TcListenerReceive(d)

\* C19: the listener thread only hands a received command over to the
\* simulation thread: its step writes no field of any subsystem, CDH and
\* COMMS included, and does not enter CDH process_command itself.
C19_ListenerOnlyEnqueues ==
    [][ ListenerStep
            => /\ obc' = obc /\ power' = power /\ adcs' = adcs /\ comms' = comms
               /\ payload' = payload /\ datastore' = datastore /\ cdh' = cdh
               /\ call'.op # "CDHModule.process_command" ]_vars

\* C19: the listener thread has counted a datagram in COMMS and has called
\* CDH process_command with its command itself
C19_Witness ==
    /\ call.op = "CDHModule.process_command"
    /\ call.id = 33
    /\ comms.packets_received = 1
    /\ tc_thread # "listening"

\* the handler runs so far whose command was an ADCS SET_MODE with a mode
\* the ADCS knows
ModeChanges ==
    SelectSeq(rt.applied, LAMBDA a : a.subsystem = "ADCS" /\ a.command = "SET_MODE"
                                       /\ a.value \in ADCSModes)

\* C20: commands are applied in the order their datagrams were received
\* and each at most once: the handler runs so far carry strictly increasing
\* receipt numbers, none above the number of datagrams received, and the
\* ADCS mode is the one of the last mode change applied.
C20_AppliedInReceiptOrder ==
    /\ \A i, j \in 1..Len(rt.applied) :
           i < j => rt.applied[i].rcv < rt.applied[j].rcv
    /\ \A i \in 1..Len(rt.applied) : rt.applied[i].rcv \in 1..rt.n_received
    /\ ModeChanges # << >> => rt.adcs_mode = ModeChanges[Len(ModeChanges)].value

\* C20: three datagrams were received, the listener thread took the second,
\* and one update applied SET_MODE LOCK and then SET_MODE NADIR
C20_Witness ==
    /\ rt.op = "update"
    /\ rt.n_received = 3
    /\ Len(rt.applied) = 2
    /\ rt.applied[1] = [rcv |-> 1, subsystem |-> "ADCS", command |-> "SET_MODE", value |-> "LOCK"]
    /\ rt.applied[2] = [rcv |-> 3, subsystem |-> "ADCS", command |-> "SET_MODE", value |-> "NADIR"]
    /\ rt.adcs_mode = "NADIR"

\* C21: once CommsModule.stop (and with it Simulator.stop) has returned,
\* the listener thread has terminated: it is not left listening, and no
\* pass of its loop takes a datagram and calls CDH afterwards.
C21_ListenerTerminatedAtStop ==
    [][SocketsClosed => (tc_thread # "listening" /\ ~ListenerStep)]_vars

\* C21: stop had returned, and the listener then counted a datagram and
\* called CDH with its command
C21_Witness ==
    /\ SocketsClosed
    /\ call.op = "CDHModule.process_command"
    /\ comms.packets_received = 1

\* a pass of the main loop in which a step of the tick raised
TickRaised ==
    /\ call'.op = "Simulator.tick"
    /\ Stepped
    /\ \E i \in 1..Len(last_logs') : last_logs'[i] = Log("error", "loop")

\* C22: no error is fatal to the simulation loop: a pass in which a step
\* of the tick raised leaves running true and the loop going, and the loop
\* ends only on an explicit stop or a keyboard interrupt.
C22_TickErrorsNotFatal ==
    [][/\ TickRaised => (sim'.running /\ sim'.loop = "looping")
       /\ (sim.loop = "looping" /\ sim'.loop = "ended")
              => sim'.ended_by \in { "stop", "KeyboardInterrupt" }]_vars

\* C22: the first tick raised, and the loop has ended with running cleared
C22_Witness ==
    /\ sim.loop = "ended"
    /\ sim.ended_by = "Exception"
    /\ ~sim.running
    /\ sim.mission_elapsed_time = time_step

\* C23: every tick propagates the orbit, updates the ADCS and then builds
\* exactly one telemetry packet and hands it to the transport: a pass of
\* the loop that advances the mission time queries the propagator, runs
\* one ADCS update, and raises the packets built and the datagrams sent by
\* one each.
C23_OnePacketPerTick ==
    [][sim'.mission_elapsed_time # sim.mission_elapsed_time
          => /\ orbit'.returned # NoneVal
             /\ n_ticks' = n_ticks + 1
             /\ packets_built' = packets_built + 1
             /\ net_out' = net_out + 1]_vars

\* C23: a tick has run: the mission time and the ADCS temperature in CDH
\* have advanced, no packet was built and none was sent
C23_Witness ==
    /\ sim.mission_elapsed_time = time_step
    /\ cdh.adcs_temperature = CDH_init.adcs_temperature + 1
    /\ packets_built = 0
    /\ net_out = 0
    /\ n_ticks = 0

\* the byte length the handler of a parameterised command unpacks, -1 for
\* the other IDs
ParamLength(id) ==
    IF id \in { 10, 11, 13, 20, 21, 30, 31, 33, 40, 41, 43, 50, 51, 60, 61 } THEN 1
    ELSE IF id \in { 12, 22, 32, 42, 44, 52, 53, 62 } THEN 4
    ELSE IF id = 34 THEN 16
    ELSE -1

WrongLength(id, data) == ParamLength(id) # -1 /\ Len(data) # ParamLength(id)

\* what the handler of subsystem sub returns for the command in this state
HandlerResult(sub, id, data) ==
    IF sub = "OBC" THEN OBC_process_command(obc, id, data)
    ELSE IF sub = "POWER" THEN POWER_process_command(power, id, data)
    ELSE IF sub = "ADCS" THEN ADCS_process_command(adcs, id, data)
    ELSE IF sub = "COMMS" THEN COMMS_process_command(comms, id, data)
    ELSE IF sub = "PAYLOAD" THEN PAYLOAD_process_command(payload, id, data)
    ELSE DATASTORE_process_command(datastore, id, data, { }, FALSE, FALSE)

SubsystemsUnchanged ==
    /\ obc' = obc /\ power' = power /\ adcs' = adcs /\ payload' = payload
    /\ datastore' = datastore /\ cdh' = cdh
    /\ [comms' EXCEPT !.packets_received = comms.packets_received] = comms

\* a handler is called with a parameterised command of its own decade
\* whose payload has the wrong length: nothing changes, the unpack error is
\* logged and the handler returns
WrongLengthInHandler ==
    (Stepped /\ handled'.seq = call'.seq
             /\ handled'.sub = SubsystemOfDecade(handled'.id)
             /\ WrongLength(handled'.id, handled'.data))
        => /\ SubsystemsUnchanged
           /\ last_logs' = << Log("error", "unpack") >>
           /\ HandlerResult(handled'.sub, handled'.id, handled'.data).raised = "none"

\* such a command arrives at the listener: nothing changes and the
\* listener stays ready for the commands that arrive afterwards
WrongLengthAtListener ==
    (Stepped /\ call'.op = "CDHModule.process_command" /\ call'.id # -1
             /\ WrongLength(call'.id, call'.data) /\ comms.running)
        => /\ SubsystemsUnchanged
           /\ tc_thread' = "listening"

\* the handlers taken alone
WrongLengthDroppedByHandlers == [][WrongLengthInHandler]_vars

\* C24: a command whose payload has the wrong byte length is logged and
\* dropped: whichever subsystem it is for and whichever parameterised ID
\* it carries, no subsystem field changes, the handler returns normally,
\* and the commands that arrive afterwards are still processed.
C24_WrongLengthDropped ==
    [][WrongLengthInHandler /\ WrongLengthAtListener]_vars

\* C24: SET_MODE (ID 33) arrived with an empty payload, and the listener
\* thread has died in the call of CDH
C24_Witness ==
    /\ call.op = "CDHModule.process_command"
    /\ call.id = 33
    /\ call.data = << >>
    /\ tc_thread = "died"

\* a call of send_tm_packet whose sendto failed
FailedSend ==
    Stepped /\ call'.op = "CommsModule.send_tm_packet" /\ call'.id = 0

\* C25: a failed telemetry send is logged and the packet is lost: the call
\* returns to its caller without an exception, writes no field of COMMS
\* (packets_sent included) and sends nothing; and on every step
\* packets_sent advances exactly as the datagrams sent do, so that it
\* always equals the number of successful sends.
C25_FailedSendDropped ==
    [][/\ comms'.packets_sent - comms.packets_sent = net_out' - net_out
       /\ FailedSend => /\ comms' = comms
                        /\ net_out' = net_out
                        /\ last_logs' = << Log("error", "socket") >>
                        /\ COMMS_send_tm_packet(comms, 1, FALSE).raised = "none"]_vars

\* C25: one packet was sent, then a send of a built packet failed, and
\* packets_sent is 1
C25_Witness ==
    /\ call.op = "CommsModule.send_tm_packet"
    /\ call.id = 0
    /\ call.data # << >>
    /\ call.seq >= 2
    /\ comms.packets_sent = 1
    /\ net_out = 1

\* a call of propagate
PropagateStep == Stepped /\ call'.op = "OrbitPropagator.propagate"

\* C26: propagate(t) returns the state computed for t, never one cached
\* for another time; asked for the time of the previous call (or for the
\* epoch as the first call) it returns the cached state without
\* calculating, so that repeated calls return the same state.
C26_PropagateMemoized ==
    [][PropagateStep =>
         /\ orbit'.returned = calculate_state(call'.id)
         /\ orbit'.returned.time = call'.id
         /\ orbit'.current_state = orbit'.returned
         /\ call'.id = orbit.last_update_time
                => /\ orbit'.n_calculated = orbit.n_calculated
                   /\ orbit'.returned = orbit.current_state
         /\ (call.op = "OrbitPropagator.propagate" /\ call.id = call'.id)
                => /\ orbit'.n_calculated = orbit.n_calculated
                   /\ orbit'.returned = orbit.returned]_vars

\* C26: the propagator was moved off the epoch and asked for the epoch
\* again, which it calculated anew, and then once more, which it answered
\* from the cache
C26_Witness ==
    /\ call.op = "OrbitPropagator.propagate"
    /\ call.id = mission_start
    /\ orbit.cached
    /\ orbit.n_calculated = 3
    /\ orbit.returned = calculate_state(mission_start)

\* a SET_MODE to mode has been accepted and nothing but ticks followed
Commanded(modes) == n_cmds = 1 /\ adcs.mode \in modes

\* the tracking modes taken alone
TrackingEventuallyAchieved == Commanded(2..4) ~> (adcs.status = 2)

\* in LOCK no tick leaves SLEWING, however many ticks run
LockStaysSlewing == Commanded({ 1 }) => adcs.status = 1

C28_ListenerStaysAlive == comms.running => tc_thread = "listening"

\* C28: recvfrom raised a socket error while CommsModule was running, and
\* the listener thread has left its loop
C28_Witness ==
    /\ comms.running
    /\ call.op = "CommsModule._tc_listener"
    /\ tc_thread = "exited"

\* a tick of the ADCS in mode OFF that runs its attitude step
OffTick ==
    /\ Stepped
    /\ call'.op = "ADCSModule.update"
    /\ call'.id # adcs.last_update_time
    /\ drawn'.fail = "none"
    /\ adcs.mode = 0

\* the Euler angles of the attitude before the tick being taken
EulerBefore == quaternion_to_euler(adcs.quaternion)

\* Euler angles advanced by the rates drawn for one time step, as the
\* rotation they give is read back; NaN stays NaN
Drifted(rpy, rates) ==
    IF rpy = NaNAngles THEN NaNAngles
    ELSE CanonRpy([i \in 1..3 |-> rpy[i] + rates[i] * time_step])

\* C29: a tick in mode OFF tracks no target: the rates applied are
\* strictly positive, within 0.001 and 0.1 degree per second; the attitude
\* after the tick is the one before it with every Euler angle advanced by
\* its rate times the time step (exactly so on each axis away from the
\* ends of its range); the angular velocity is the three rates; mode and
\* status are left as they were, and so is every field that is not the
\* attitude, the position, the eclipse flag or the time of the update.
C29_OffModeDrifts ==
    [][OffTick =>
         /\ \A i \in 1..3 : drawn'.rates[i] >= 1 /\ drawn'.rates[i] <= 100
         /\ adcs'.angular_velocity = drawn'.rates
         /\ EulerAfter = Drifted(EulerBefore, drawn'.rates)
         /\ (EulerBefore # NaNAngles /\ Abs(EulerBefore[2]) < 89000
                /\ Abs(EulerBefore[1]) < 179000 /\ Abs(EulerBefore[3]) < 179000)
              => \A i \in 1..3 : /\ EulerAfter[i] = EulerBefore[i] + drawn'.rates[i] * time_step
                                 /\ EulerAfter[i] > EulerBefore[i]
         /\ adcs'.mode = 0
         /\ adcs'.status = adcs.status
         /\ [adcs' EXCEPT !.quaternion = adcs.quaternion,
                          !.angular_velocity = adcs.angular_velocity,
                          !.position = adcs.position, !.eclipse = adcs.eclipse,
                          !.last_update_time = adcs.last_update_time] = adcs]_vars

\* C29: SET_MODE 0 left the status SLEWING, and a tick has drifted the
\* configured attitude (roll 90 degrees) by 0.1, 0.05 and 0.001 degree
C29_Witness ==
    /\ call.op = "ADCSModule.update"
    /\ drawn.fail = "none"
    /\ n_cmds >= 1
    /\ adcs.mode = 0
    /\ adcs.status = 1
    /\ adcs.angular_velocity = << 100, 50, 1 >>
    /\ quaternion_to_euler(adcs.quaternion) = << 90100, 50, 1 >>

\* the length field of a packet on the wire
LengthField(bytes) == FromBE(SubSeq(bytes, 5, 6))

\* C30: every packet to_bytes writes carries in its length field the
\* number of its bytes after the 6-byte primary header, minus one, so that
\* the playback reader, which takes length field + 7 bytes per packet,
\* sends the packets of the file one by one, each exactly as written.
C30_StreamSplitAtBoundaries ==
    /\ \A i \in 1..Len(playback.written) :
           LengthField(playback.written[i]) = Len(playback.written[i]) - 6 - 1
    /\ Len(playback.sent) <= Len(playback.written)
    /\ \A i \in 1..Len(playback.sent) : playback.sent[i] = playback.written[i]

\* C30: two packets with the payload 01 02 FF were written; the first
\* datagram sent is the first packet with the first byte of the second
\* appended
C30_Witness ==
    /\ Len(playback.written) = 2
    /\ Len(playback.written[1]) = 9
    /\ Len(playback.written[2]) = 9
    /\ Len(playback.sent) >= 1
    /\ Len(playback.sent[1]) = 10
    /\ SubSeq(playback.sent[1], 1, 9) = playback.written[1]
    /\ playback.sent[1][10] = playback.written[2][1]

\* the datagrams a step takes from the receive buffer of the TC socket,
\* numbered as recvfrom returned them
TakenFromSocket ==
    [i \in 1..(rt'.n_received - rt.n_received) |->
        [rcv |-> rt.n_received + i, d |-> rt.socket[i]]]

\* C31: under every interleaving of the listener thread and the per-tick
\* _check_incoming_tc, a datagram read from the TC socket while COMMS is
\* receiving is placed on tc_queue: whichever step takes datagrams from
\* the socket leaves them, in order, at the end of tc_queue.
C31_ReceivedIsQueued ==
    [][ rt'.n_received > rt.n_received
            => /\ Len(rt'.tc_queue) >= Len(TakenFromSocket)
               /\ SubSeq(rt'.tc_queue, Len(rt'.tc_queue) - Len(TakenFromSocket) + 1,
                         Len(rt'.tc_queue)) = TakenFromSocket ]_vars

\* C31: COMMS is receiving, the listener thread has taken the only
\* datagram from the socket, and it is neither queued nor applied
C31_Witness ==
    /\ rt.op = "listener"
    /\ rt.comms_mode = "RX"
    /\ rt.n_arrived = 1
    /\ rt.n_received = 1
    /\ rt.socket = << >>
    /\ rt.tc_queue = << >>
    /\ rt.applied = << >>

\* a telecommand the OBC can dispatch: a TC header, a JSON payload, and a
\* registered target
WellFormedTc(d) ==
    /\ from_bytes(d.header).packet_type = 1
    /\ d.json.ok
    /\ d.json.subsystem \in RtSubsystems

\* the k-th datagram that arrived is still in the receive buffer of the TC
\* socket and is a well-formed telecommand
WaitingWellFormed(k) ==
    /\ rt.n_received < k
    /\ k <= rt.n_arrived
    /\ WellFormedTc(rt.socket[k - rt.n_received])

\* the k-th datagram received has been dispatched to its subsystem
Dispatched(k) == \E i \in 1..Len(rt.applied) : rt.applied[i].rcv = k

\* C32: from the state Simulator._init_subsystems builds, a well-formed
\* telecommand datagram sent to the TC port is eventually read into
\* tc_queue and dispatched by the OBC to its target, under fair ticking.
C32_EventuallyDispatched == WaitingWellFormed(1) ~> Dispatched(1)

\* with COMMS in the mode it is constructed with, no update reads the TC
\* socket
ModeOffNothingRead == rt.comms_mode = "OFF" => rt.n_received = 0 /\ rt.tc_queue = << >>

\* C32: COMMS is ACTIVE in the mode it was constructed with, a well-formed
\* ADCS telecommand is waiting on the socket, and an update has run
C32_Witness ==
    /\ rt.op = "update"
    /\ rt.state["COMMS"] = "ACTIVE"
    /\ rt.comms_mode = "OFF"
    /\ WaitingWellFormed(1)
    /\ rt.socket[1].json.subsystem = "ADCS"
    /\ rt.applied = << >>

\* no handler run for a subsystem follows a run that switched it OFF
NoDispatchToOff ==
    \A i, j \in 1..Len(rt.applied) :
        /\ i < j
        /\ rt.applied[i].command = "SET_STATE"
        /\ rt.applied[i].value = "OFF"
        => rt.applied[j].subsystem # rt.applied[i].subsystem

\* C33: _process_telecommands never calls process_command on a subsystem
\* whose state is OFF, so on the telecommand path a subsystem that is OFF
\* is OFF in every later state: no step switches it back on, and no
\* handler run for it follows the one that switched it OFF.
C33_OffStaysOff ==
    [][ /\ \A t \in RtSubsystems : rt.state[t] = "OFF" => rt'.state[t] = "OFF"
        /\ NoDispatchToOff' ]_vars

\* C33: SET_STATE OFF switched the ADCS off, a SET_STATE IDLE telecommand
\* for it was received after that and drained, and the ADCS is still OFF
C33_Witness ==
    /\ rt.op = "update"
    /\ rt.state["ADCS"] = "OFF"
    /\ rt.n_received = 2
    /\ rt.tc_queue = << >>
    /\ rt.socket = << >>
    /\ Len(rt.applied) = 1
    /\ rt.applied[1].rcv = 1
    /\ rt.applied[1].command = "SET_STATE"
    /\ rt.off_warnings = << [rcv |-> 2, subsystem |-> "ADCS",
                             command |-> "SET_STATE", value |-> "IDLE"] >>

\* the OBC telecommand SET_MODE NOMINAL is the oldest item of tc_queue
ObcSetModeAtHead ==
    /\ rt.tc_queue # << >>
    /\ from_bytes(Head(rt.tc_queue).d.header).packet_type = 1
    /\ Head(rt.tc_queue).d.json.ok
    /\ Head(rt.tc_queue).d.json.subsystem = "OBC"
    /\ Head(rt.tc_queue).d.json.command = "SET_MODE"
    /\ Head(rt.tc_queue).d.json.value = "NOMINAL"

\* C34: a telecommand whose target is OBC is dispatched to
\* OBCSubsystem.process_command when the OBC drains tc_queue: the update
\* that drains an OBC SET_MODE NOMINAL telecommand, with the OBC on and in
\* SAFE mode, runs the handler for it and leaves the OBC in NOMINAL mode.
C34_ObcTelecommandDispatched ==
    [][ /\ ObcSetModeAtHead
        /\ rt.obc_state # "OFF"
        /\ rt.obc_mode = "SAFE"
        /\ rt'.op = "update"
        => /\ rt'.obc_mode = "NOMINAL"
           /\ \E i \in 1..Len(rt'.applied) :
                  rt'.applied[i].rcv = Head(rt.tc_queue).rcv ]_vars

\* C34: the OBC SET_MODE NOMINAL telecommand was received and drained by
\* an update, was dropped as addressed to an unknown subsystem, and the OBC
\* mode is still SAFE
C34_Witness ==
    /\ rt.op = "update"
    /\ rt.obc_state = "ACTIVE"
    /\ rt.n_received = 1
    /\ rt.tc_queue = << >>
    /\ rt.unknown_warnings = << [rcv |-> 1, subsystem |-> "OBC"] >>
    /\ rt.applied = << >>
    /\ rt.obc_mode = "SAFE"

\* COMMS is on and in a transmitting mode
Transmitting == scrt.comms_state # "OFF" /\ scrt.comms_mode \in { "TX", "TXRX" }

\* the telemetry packet with sequence count k is on tm_queue
InTmQueue(k) == \E i \in 1..Len(scrt.tm_queue) : scrt.tm_queue[i].seq = k

\* C35: every telemetry packet the OBC puts on tm_queue is eventually
\* taken from the queue and handed to the TM socket, and packets are
\* handed over in enqueue order, while COMMS stays on in TX or TXRX mode,
\* for every positive tm_bitrate: no packet stays in the queue forever.
C35_EveryPacketTransmitted ==
    /\ [](\A i, j \in 1..Len(scrt.tm_sent) :
              i < j => scrt.tm_sent[i].seq < scrt.tm_sent[j].seq)
    /\ \A k \in 0..(MaxTmPackets - 1) :
           (Transmitting /\ InTmQueue(k))
               ~> (\E i \in 1..Len(scrt.tm_sent) : scrt.tm_sent[i].seq = k)

\* a packet at the head of tm_queue that is longer than what one update
\* may send is still at the head after that update
HeadTooLongStays ==
    [][ /\ scrt.tm_queue # << >>
        /\ Head(scrt.tm_queue).len > bytes_per_update(scrt.tm_bitrate)
        /\ scrt'.op = "update"
        => scrt'.tm_queue # << >> /\ Head(scrt'.tm_queue) = Head(scrt.tm_queue) ]_vars

\* C35: COMMS transmits at a positive bitrate, a packet is at the head of
\* tm_queue, an update has run, and nothing has been sent
C35_Witness ==
    /\ scrt.op = "update"
    /\ Transmitting
    /\ scrt.tm_bitrate = 8000
    /\ scrt.tm_queue # << >>
    /\ Head(scrt.tm_queue) = [seq |-> 0, len |-> 1500]
    /\ scrt.tm_sequence_count = 2
    /\ scrt.tm_sent = << >>

\* ADCS, PAYLOAD and DATASTORE are all registered and not OFF
PayloadModeRequirements ==
    \A t \in required_subsystems :
        t \in obcsys.subsystems /\ obcsys.sub_state[t] # "OFF"

\* C36: after every OBCSubsystem.update with the OBC not OFF, a PAYLOAD
\* mode means that ADCS, PAYLOAD and DATASTORE are all registered and not
\* OFF, and a PAYLOAD mode found without them has been forced to SAFE; a
\* SET_MODE PAYLOAD is refused, the mode unchanged, whenever one of the
\* three is missing or OFF.
C36_PayloadModeRequirements ==
    [][ /\ obcsys'.op = "update" /\ obcsys.state # "OFF"
            => /\ obcsys'.mode = "PAYLOAD" => PayloadModeRequirements'
               /\ obcsys.mode = "PAYLOAD" /\ ~PayloadModeRequirements
                      => obcsys'.mode = "SAFE"
        /\ obcsys'.op = "set_mode" /\ obcsys'.arg = "PAYLOAD" /\ ~PayloadModeRequirements
            => obcsys'.mode = obcsys.mode /\ ~obcsys'.returned ]_vars

\* C36: an update found the OBC in PAYLOAD mode with the datastore OFF
\* and forced the mode to SAFE
C36_Witness ==
    /\ obcsys.op = "update"
    /\ obcsys.warned
    /\ obcsys.state = "ACTIVE"
    /\ obcsys.mode = "SAFE"
    /\ obcsys.subsystems = ObcSubsystems
    /\ obcsys.sub_state["DATASTORE"] = "OFF"
    /\ obcsys.sub_state["ADCS"] = "IDLE"
    /\ obcsys.adcs_mode = "SUNPOINTING"

\* a SET_MODE PAYLOAD was refused with the OBC on in NOMINAL mode, the
\* payload registered and OFF
SetModePayloadRefused ==
    /\ obcsys.op = "set_mode" /\ obcsys.arg = "PAYLOAD" /\ ~obcsys.returned
    /\ obcsys.state = "ACTIVE"
    /\ obcsys.mode = "NOMINAL"
    /\ "PAYLOAD" \in obcsys.subsystems /\ obcsys.sub_state["PAYLOAD"] = "OFF"

\* the payload fields and the datastore
PayloadAndStore ==
    << scrt.payload_state, scrt.status, scrt.imaging, scrt.image_progress,
       scrt.files, scrt.storage_remaining >>

\* C37: imaging is true exactly when status is BUSY; a CAPTURE is refused
\* with no state change while the payload is OFF, while status is BUSY,
\* or when the datastore lacks space for the image; a capture that
\* completes adds exactly one file to the datastore and returns status to
\* READY.
C37_OneCaptureAtATime ==
    [][ /\ scrt'.imaging <=> scrt'.status = "BUSY"
        /\ /\ scrt'.op = "CAPTURE"
           /\ \/ scrt.payload_state = "OFF"
              \/ scrt.status = "BUSY"
              \/ scrt.storage_remaining < image_size
           => PayloadAndStore' = PayloadAndStore /\ ~scrt'.returned
        /\ /\ scrt'.op = "payload_update"
           /\ scrt.payload_state # "OFF"
           /\ scrt.imaging /\ ~scrt'.imaging
           => /\ scrt'.files = Append(scrt.files, image_size)
              /\ scrt'.status = "READY" ]_vars

\* C37: a capture has completed: the update stored the image as the second
\* file and the payload is READY and IDLE again
C37_Witness ==
    /\ scrt.op = "payload_update"
    /\ scrt.files = << image_size, image_size >>
    /\ scrt.storage_remaining = total_storage - 2 * image_size
    /\ scrt.status = "READY"
    /\ ~scrt.imaging
    /\ scrt.payload_state = "IDLE"

\* a CAPTURE was refused because the datastore lacks space for the image
CaptureRefusedNoSpace ==
    /\ scrt.op = "CAPTURE" /\ ~scrt.returned
    /\ scrt.payload_state # "OFF" /\ scrt.status = "READY"
    /\ scrt.storage_remaining < image_size

\* a CAPTURE was refused while a capture was in progress
CaptureRefusedBusy ==
    /\ scrt.op = "CAPTURE" /\ ~scrt.returned
    /\ scrt.payload_state # "OFF" /\ scrt.status = "BUSY" /\ scrt.image_progress > 0

\* the sum of the sizes of the files
RECURSIVE SumOfSizes(_)
SumOfSizes(files) == IF files = << >> THEN 0 ELSE Head(files) + SumOfSizes(Tail(files))

\* C38: after any sequence of store_file, DELETE_LAST_FILE and
\* CLEAR_DATASTORE, storage_remaining is total_storage minus the sum of
\* the sizes of the stored files and is not negative; a store_file with a
\* size larger than storage_remaining returns False and changes neither
\* the file list nor storage_remaining.
C38_StorageAccounting ==
    [][ /\ scrt'.storage_remaining = total_storage - SumOfSizes(scrt'.files)
        /\ scrt'.storage_remaining >= 0
        /\ \A size_mb \in FileSizes :
               /\ size_mb > scrt.storage_remaining
               /\ scrt' = [store_file(scrt, size_mb) EXCEPT !.op = "store_file"]
               => /\ ~scrt'.returned
                  /\ scrt'.files = scrt.files
                  /\ scrt'.storage_remaining = scrt.storage_remaining ]_vars

\* C38: a store_file of 500 MB was refused with two files of 500 MB and
\* one of 6 MB stored and 18 MB left
C38_Witness ==
    /\ scrt.op = "store_file"
    /\ ~scrt.returned
    /\ scrt.files = << 500, 6, 500 >>
    /\ scrt.storage_remaining = 18

\* the last of three files was deleted and its space given back
LastFileDeleted ==
    /\ scrt.op = "DELETE_LAST_FILE" /\ scrt.returned
    /\ scrt.files = << 500, 6 >>
    /\ scrt.storage_remaining = 518

\* C39: ADCSModule.update called with the time of the last completed
\* update is a no-op: no field of the ADCS changes and nothing is logged,
\* whatever the propagator would have answered.  An update that fails in
\* the propagator or the environment model does not record its time, and
\* an update with another time that does not fail records it.
C39_SameTimeIsNoOp ==
    [][ call'.op = "ADCSModule.update"
            => /\ call'.id = adcs.last_update_time
                      => adcs' = adcs /\ last_logs' = << >>
               /\ call'.id # adcs.last_update_time
                      /\ drawn'.fail \in { "orbit", "environment" }
                      => adcs'.last_update_time = adcs.last_update_time
               /\ call'.id # adcs.last_update_time /\ drawn'.fail = "none"
                      => adcs'.last_update_time = call'.id ]_vars

\* C39: in mode OFF one update completed at one second after the mission
\* start and the next call, with the same time, did nothing
C39_Witness ==
    /\ call.op = "ADCSModule.update"
    /\ n_ticks = 2 /\ n_cmds = 0
    /\ adcs.mode = 0
    /\ call.id = mission_start_time + 1
    /\ adcs.last_update_time = mission_start_time + 1
    /\ drawn = NoDraw("none")
    /\ adcs.angular_velocity # << 0, 0, 0 >>

\* an update failed in the environment model: the position is the new
\* one and the time of the update is not recorded
FailedUpdateTimeNotRecorded ==
    /\ call.op = "ADCSModule.update"
    /\ drawn.fail = "environment"
    /\ call.id = mission_start_time + 1
    /\ adcs.position = [orbit |-> mission_start_time + 1]
    /\ adcs.last_update_time = mission_start_time

\* print_status returns in this step
StatusReturns == pbsim.st_pc = "read_tc" /\ pbsim'.st_pc = "idle"

\* C40: under every interleaving of the TM sender thread, the TC receiver
\* thread and the status loop, the status print_status returns carries as
\* 'Sent' the number of TM packets sent so far, as 'Received' the number of
\* TC datagrams received so far, and as last command the datagram counted
\* last.
C40_StatusMatchesTraffic ==
    [][ StatusReturns
            => /\ pbsim'.reported.sent = pbsim.sent
               /\ pbsim'.reported.received = Len(pbsim.received)
               /\ pbsim'.reported.last_command =
                      IF pbsim.tc_counter = 0 THEN NoneVal
                      ELSE [str |-> hexlify(pbsim.received[pbsim.tc_counter])] ]_vars

\* after the first statement of send_tm the counter is one ahead of the
\* packets sent whenever the sender thread is between two passes
SentCountOneAhead == pbsim.tm_pc = "loop" => pbsim.tm_counter = pbsim.sent + 1

\* C40: print_status has reported one packet sent and no command while
\* the sender thread, its file empty, has sent nothing and no datagram has
\* arrived
C40_Witness ==
    /\ pbsim.n_reports > 0
    /\ pbsim.reported = [sent |-> 1, received |-> 0, last_command |-> NoneVal]
    /\ pbsim.st_pc = "idle"
    /\ pbsim.tm_pc = "loop"
    /\ pbsim.passes_left = 0
    /\ pbsim.sent = 0
    /\ pbsim.received = << >>

====
